---- MODULE Spec2Model ----
(***************************************************************************)
(* The Poseidon2 chips of pico's gnark circuits (BabyBear and KoalaBear):  *)
(* the sponge (Update / Finalize), the permutation PermuteMut with its     *)
(* rounds, the S-box and the two linear layers, over the non-native field  *)
(* gadget (AddF, MulF, MulFConst, ReduceSlow).                             *)
(*                                                                         *)
(* A gadget variable is a record [Value, UpperBound]: a native (BN254      *)
(* scalar field) value and the tracked bound of its magnitude.  Both are   *)
(* naturals far beyond 32 bits, so they are held as little-endian          *)
(* sequences of limbs in base 2^15 without high zero limbs (zero is <<>>); *)
(* the arithmetic below is exact.                                          *)
(***************************************************************************)
EXTENDS Integers, Sequences, FiniteSets, TLC

\* --------------------------------------------------------------------------
\* Exact arithmetic on naturals of arbitrary size (big.Int)
\* --------------------------------------------------------------------------

Base == 2^15

RECURSIVE BigFromInt(_)
BigFromInt(n) ==
    IF n = 0 THEN <<>> ELSE <<n % Base>> \o BigFromInt(n \div Base)

RECURSIVE BigNorm(_)
BigNorm(a) ==
    IF a = <<>> THEN a
    ELSE IF a[Len(a)] = 0 THEN BigNorm(SubSeq(a, 1, Len(a) - 1)) ELSE a

RECURSIVE BigAddC(_, _, _)
BigAddC(a, b, c) ==
    IF a = <<>> THEN (IF c = 0 THEN b ELSE BigAddC(<<c>>, b, 0))
    ELSE IF b = <<>> THEN (IF c = 0 THEN a ELSE BigAddC(a, <<c>>, 0))
    ELSE LET s == Head(a) + Head(b) + c
         IN  <<s % Base>> \o BigAddC(Tail(a), Tail(b), s \div Base)

BigAdd(a, b) == BigAddC(a, b, 0)

RECURSIVE BigMulSmallC(_, _, _)
BigMulSmallC(a, d, c) ==
    IF a = <<>> THEN (IF c = 0 THEN <<>> ELSE <<c>>)
    ELSE LET s == Head(a) * d + c
         IN  <<s % Base>> \o BigMulSmallC(Tail(a), d, s \div Base)

\* a * d for one limb d
BigMulSmall(a, d) == IF d = 0 THEN <<>> ELSE BigMulSmallC(a, d, 0)

BigShift(a, j) == IF a = <<>> THEN a ELSE [i \in 1..j |-> 0] \o a

RECURSIVE BigMul(_, _)
BigMul(a, b) ==
    IF a = <<>> \/ b = <<>> THEN <<>>
    ELSE BigAdd(BigMulSmall(a, Head(b)), BigShift(BigMul(a, Tail(b)), 1))

RECURSIVE BigCmpFrom(_, _, _)
BigCmpFrom(a, b, i) ==
    IF i = 0 THEN 0
    ELSE IF a[i] < b[i] THEN -1
    ELSE IF a[i] > b[i] THEN 1
    ELSE BigCmpFrom(a, b, i - 1)

\* -1, 0, 1 as a < b, a = b, a > b
BigCmp(a, b) ==
    IF Len(a) < Len(b) THEN -1
    ELSE IF Len(a) > Len(b) THEN 1
    ELSE BigCmpFrom(a, b, Len(a))

BigLess(a, b) == BigCmp(a, b) < 0

RECURSIVE BigSubB(_, _, _)
BigSubB(a, b, br) ==
    IF a = <<>> THEN <<>>
    ELSE IF b = <<>> /\ br = 0 THEN a
    ELSE LET d == Head(a) - (IF b = <<>> THEN 0 ELSE Head(b)) - br
         IN  <<IF d < 0 THEN d + Base ELSE d>>
                 \o BigSubB(Tail(a), IF b = <<>> THEN b ELSE Tail(b),
                            IF d < 0 THEN 1 ELSE 0)

\* a - b for a >= b
BigSub(a, b) == BigNorm(BigSubB(a, b, 0))

\* a mod m for a modulus of at least two limbs: subtract under-estimated
\* multiples of m until the rest is below m.
RECURSIVE BigMod(_, _)
BigMod(a, m) ==
    IF BigLess(a, m) THEN a
    ELSE LET la == Len(a)
             n  == Len(m)
             a2 == a[la] * Base + a[la - 1]
             m2 == m[n] * Base + m[n - 1]
             q1 == a2 \div (m2 + 1)
             q2 == a2 \div (m[n] + 1)
             q  == IF q1 >= 1 THEN q1
                   ELSE IF la > n THEN (IF q2 >= Base THEN Base - 1 ELSE q2)
                   ELSE 1
             j  == IF q1 >= 1 \/ la = n THEN la - n ELSE la - n - 1
         IN  BigMod(BigSub(a, BigShift(BigMulSmall(m, q), j)), m)

RECURSIVE BigPow(_, _)
BigPow(a, e) == IF e = 0 THEN <<1>> ELSE BigMul(a, BigPow(a, e - 1))

\* --------------------------------------------------------------------------
\* The fields
\* --------------------------------------------------------------------------

Fields == {"bb", "kb"}

BabyBearModulus  == 2013265921
KoalaBearModulus == 2130706433

Modulus(f) == IF f = "bb" THEN BabyBearModulus ELSE KoalaBearModulus
BigModulus(f) == BigFromInt(Modulus(f))

\* ecc.BN254.ScalarField(): the modulus of the circuit's native field,
\* 21888242871839275222246405745257275088548364400416034343698204186575808495617
NativeModulus ==
    <<1, 24576, 22095, 7951, 2324, 14126, 4638, 6644, 23848, 688, 23046,
      557, 7045, 13317, 14412, 10041, 12388>>

\* frontend.API Add and Mul: arithmetic of the native field
ApiAdd(x, y) == BigMod(BigAdd(x, y), NativeModulus)
ApiMul(x, y) == BigMod(BigMul(x, y), NativeModulus)

\* --------------------------------------------------------------------------
\* The non-native field gadget (babybear.Chip / koalabear.Chip)
\* --------------------------------------------------------------------------

\* a constant of the field, canonical, with the canonical bound p - 1
NewFConst(f, n) ==
    [Value |-> BigFromInt(n), UpperBound |-> BigFromInt(Modulus(f) - 1)]

Zero(f) == NewFConst(f, 0)
One(f)  == NewFConst(f, 1)

AddF(a, b) ==
    [Value      |-> ApiAdd(a.Value, b.Value),
     UpperBound |-> BigAdd(a.UpperBound, b.UpperBound)]

MulF(a, b) ==
    [Value      |-> ApiMul(a.Value, b.Value),
     UpperBound |-> BigMul(a.UpperBound, b.UpperBound)]

MulFConst(a, k) ==
    [Value      |-> ApiMul(a.Value, BigFromInt(k)),
     UpperBound |-> BigMul(a.UpperBound, BigFromInt(k))]

\* a variant: the bound is reset but the value is left as it is
ReduceSlowKeep(f, a) ==
    [Value      |-> a.Value,
     UpperBound |-> BigFromInt(Modulus(f) - 1)]

ReduceSlow(f, a) ==
    [Value      |-> BigMod(a.Value, BigModulus(f)),
     UpperBound |-> BigFromInt(Modulus(f) - 1)]

\* --------------------------------------------------------------------------
\* The Poseidon2 chips (Poseidon2BabyBearChip / Poseidon2KoalaBearChip)
\* --------------------------------------------------------------------------

\* a variant: the buffer fills one Update later
RateSixteen == 15 + 1

WIDTH == 16
NumExternalRounds == 8
babybearNumInternalRounds == 13
koalabearNumInternalRounds == 20
RATE == 15

Lanes == 0..(WIDTH - 1)

NumInternalRounds(f) ==
    IF f = "bb" THEN babybearNumInternalRounds ELSE koalabearNumInternalRounds

\* rc16 / rc16_koalabear: one row of 16 field constants per round.  The
\* tables are compiled in from a file of constants; the entries here are
\* pairwise distinct canonical stand-ins for them.
rc16(f) ==
    [r \in 0..(NumExternalRounds + NumInternalRounds(f) - 1) |->
        [i \in Lanes |->
            NewFConst(f, (WIDTH * r + i + 1) * 4000037
                            + (IF f = "bb" THEN 0 ELSE 1))]]

\* a variant: the power's bound declared one degree too low
BabyBear_sboxBoundSix == BigPow(BigFromInt(BabyBearModulus), 6)

\* the UpperBound sboxP gives the power before its last ReduceSlow
BabyBear_sboxBound  == BigPow(BigFromInt(BabyBearModulus), 7)
KoalaBear_sboxBound == BigPow(BigFromInt(KoalaBearModulus), 3)

Call(name, x, y, out) == [call |-> name, x |-> x, y |-> y, out |-> out]

\* sboxP, statement by statement: the gadget and API calls of its first n
\* statements in order, each with its operands and its result.  A statement
\* reads the results of the statements before it.
RECURSIVE BabyBear_sboxPCalls(_, _)
BabyBear_sboxPCalls(input, n) ==
    IF n = 0 THEN <<>>
    ELSE LET t == BabyBear_sboxPCalls(input, n - 1)
         IN  Append(t,
               CASE n = 1 ->    \* inputCpy := AddF(input, zero)
                      Call("AddF", input, NewFConst("bb", 0),
                           AddF(input, NewFConst("bb", 0)))
                 [] n = 2 ->    \* inputCpy = ReduceSlow(inputCpy)
                      Call("ReduceSlow", t[1].out, t[1].out,
                           ReduceSlow("bb", t[1].out))
                 [] n = 3 ->    \* i2 := Mul(inputValue, inputValue)
                      Call("Mul", t[2].out.Value, t[2].out.Value,
                           ApiMul(t[2].out.Value, t[2].out.Value))
                 [] n = 4 ->    \* i4 := Mul(i2, i2)
                      Call("Mul", t[3].out, t[3].out,
                           ApiMul(t[3].out, t[3].out))
                 [] n = 5 ->    \* i6 := Mul(i4, i2)
                      Call("Mul", t[4].out, t[3].out,
                           ApiMul(t[4].out, t[3].out))
                 [] n = 6 ->    \* i7 := Mul(i6, inputValue)
                      Call("Mul", t[5].out, t[2].out.Value,
                           ApiMul(t[5].out, t[2].out.Value))
                 [] n = 7 ->    \* i7bb := ReduceSlow({i7, 2013265921^7})
                      Call("ReduceSlow",
                           [Value |-> t[6].out, UpperBound |-> BabyBear_sboxBound],
                           [Value |-> t[6].out, UpperBound |-> BabyBear_sboxBound],
                           ReduceSlow("bb", [Value |-> t[6].out,
                                             UpperBound |-> BabyBear_sboxBound])))

RECURSIVE KoalaBear_sboxPCalls(_, _)
KoalaBear_sboxPCalls(input, n) ==
    IF n = 0 THEN <<>>
    ELSE LET t == KoalaBear_sboxPCalls(input, n - 1)
         IN  Append(t,
               CASE n = 1 ->    \* inputCpy := AddF(input, zero)
                      Call("AddF", input, NewFConst("kb", 0),
                           AddF(input, NewFConst("kb", 0)))
                 [] n = 2 ->    \* inputCpy = ReduceSlow(inputCpy)
                      Call("ReduceSlow", t[1].out, t[1].out,
                           ReduceSlow("kb", t[1].out))
                 [] n = 3 ->    \* i2 := Mul(inputValue, inputValue)
                      Call("Mul", t[2].out.Value, t[2].out.Value,
                           ApiMul(t[2].out.Value, t[2].out.Value))
                 [] n = 4 ->    \* i3 := Mul(i2, inputValue)
                      Call("Mul", t[3].out, t[2].out.Value,
                           ApiMul(t[3].out, t[2].out.Value))
                 [] n = 5 ->    \* i3bb := ReduceSlow({i3, 2130706433^3})
                      Call("ReduceSlow",
                           [Value |-> t[4].out, UpperBound |-> KoalaBear_sboxBound],
                           [Value |-> t[4].out, UpperBound |-> KoalaBear_sboxBound],
                           ReduceSlow("kb", [Value |-> t[4].out,
                                             UpperBound |-> KoalaBear_sboxBound])))

\* the calls of a whole sboxP: seven statements for BabyBear, five for
\* KoalaBear
sboxPCalls(f, input) ==
    IF f = "bb" THEN BabyBear_sboxPCalls(input, 7)
    ELSE KoalaBear_sboxPCalls(input, 5)

\* a variant: degree 3 in both chips
sboxPCube(f, input) ==
    LET t    == ReduceSlow(f, AddF(input, NewFConst(f, 0))).Value
        cube == ApiMul(ApiMul(t, t), t)
    IN  ReduceSlow(f, [Value |-> cube, UpperBound |-> KoalaBear_sboxBound])

\* sboxP returns the result of its last statement
sboxP(f, input) ==
    IF f = "bb" THEN BabyBear_sboxPCalls(input, 7)[7].out
    ELSE KoalaBear_sboxPCalls(input, 5)[5].out

addRc(state, rc) == [i \in Lanes |-> AddF(state[i], rc[i])]

\* a variant: the S-box on lane 0 alone, as the internal rounds have it
sboxLaneZero(f, state) ==
    [i \in Lanes |-> IF i = 0 THEN
                         (IF f = "bb" THEN BabyBear_sboxPCalls(state[i], 7)[7].out
                          ELSE KoalaBear_sboxPCalls(state[i], 5)[5].out)
                     ELSE state[i]]

sbox(f, state) == [i \in Lanes |-> sboxP(f, state[i])]

\* a variant: lane 0 is assigned first, and lane 3 reads it afterwards
mdsLightPermutation4x4Overwritten(state, o) ==
    LET t01    == AddF(state[o], state[o + 1])
        t23    == AddF(state[o + 2], state[o + 3])
        t0123  == AddF(t01, t23)
        t01123 == AddF(t0123, state[o + 1])
        t01233 == AddF(t0123, state[o + 3])
        s0     == AddF(t01123, t01)
    IN  [state EXCEPT
            ![o]     = s0,
            ![o + 3] = AddF(t01233, MulFConst(s0, 2)),
            ![o + 1] = AddF(t01123, MulFConst(state[o + 2], 2)),
            ![o + 2] = AddF(t01233, t23)]

\* a variant: the block's lane 0 takes t0123 + t01 + 2*s1
mdsLightPermutation4x4Doubled(state, o) ==
    LET t01    == AddF(state[o], state[o + 1])
        t23    == AddF(state[o + 2], state[o + 3])
        t0123  == AddF(t01, t23)
        t01123 == AddF(t0123, state[o + 1])
        t01233 == AddF(t0123, state[o + 3])
    IN  [state EXCEPT
            ![o + 3] = AddF(t01233, MulFConst(state[o], 2)),
            ![o + 1] = AddF(t01123, MulFConst(state[o + 2], 2)),
            ![o]     = AddF(AddF(t0123, t01), MulFConst(state[o + 1], 2)),
            ![o + 2] = AddF(t01233, t23)]

\* on the block state[o .. o+3], in place.  The four assignments run in
\* this order; state[o] and state[o+2] are read before they are written.
mdsLightPermutation4x4(state, o) ==
    LET t01    == AddF(state[o], state[o + 1])
        t23    == AddF(state[o + 2], state[o + 3])
        t0123  == AddF(t01, t23)
        t01123 == AddF(t0123, state[o + 1])
        t01233 == AddF(t0123, state[o + 3])
    IN  [state EXCEPT
            ![o + 3] = AddF(t01233, MulFConst(state[o], 2)),
            ![o + 1] = AddF(t01123, MulFConst(state[o + 2], 2)),
            ![o]     = AddF(t01123, t01),
            ![o + 2] = AddF(t01233, t23)]

\* the first loop of externalLinearLayer, from block i on
RECURSIVE mdsBlocks(_, _)
mdsBlocks(state, i) ==
    IF i >= WIDTH THEN state
    ELSE mdsBlocks(mdsLightPermutation4x4(state, i), i + 4)

\* the second loop of externalLinearLayer, from block i on
RECURSIVE externalSums(_, _, _)
externalSums(state, sums, i) ==
    IF i >= WIDTH THEN sums
    ELSE externalSums(state,
                      << AddF(sums[1], state[i]),
                         AddF(sums[2], state[i + 1]),
                         AddF(sums[3], state[i + 2]),
                         AddF(sums[4], state[i + 3]) >>,
                      i + 4)

\* a variant: the third loop adds the sum of column 0 to every lane
externalAddSumsFirst(state, sums) ==
    [i \in Lanes |-> AddF(state[i], sums[1])]

\* the third loop of externalLinearLayer (sums is a sequence: sums[c + 1]
\* is the code's sums[c])
externalAddSums(state, sums) ==
    [i \in Lanes |-> AddF(state[i], sums[(i % 4) + 1])]

externalLinearLayerOf(m) ==
    externalAddSums(m, externalSums(m, << m[0], m[1], m[2], m[3] >>, 4))

externalLinearLayer(state) == externalLinearLayerOf(mdsBlocks(state, 0))

matInternalDiagM1(f) ==
    LET d == IF f = "bb"
             THEN << 2013265919, 1, 2, 1006632961, 3, 4, 1006632960,
                     2013265918, 2013265917, 2005401601, 1509949441,
                     1761607681, 2013265906, 7864320, 125829120, 15 >>
             ELSE << 2130706431, 1, 2, 1065353217, 3, 4, 1065353216,
                     2130706430, 2130706429, 2122383361, 1864368129,
                     2130706306, 8323072, 266338304, 133169152, 127 >>
    IN  [i \in Lanes |-> NewFConst(f, d[i + 1])]

\* the first loop of matmulInternal: sum after the iterations 0 .. n-1, for
\* every n in 0 .. WIDTH (a sequence, so sums[n + 1] is the sum after n
\* iterations)
RECURSIVE matmulSums(_, _, _)
matmulSums(f, state, n) ==
    IF n = 0 THEN << NewFConst(f, 0) >>
    ELSE LET before == matmulSums(f, state, n - 1)
         IN  Append(before, AddF(before[n], state[n - 1]))

\* a variant: one loop that updates lane i and then adds the updated lane to
\* the running sum; new is the sequence of the lanes updated so far
RECURSIVE matmulRunning(_, _, _, _)
matmulRunning(f, state, diag, n) ==
    IF n = 0 THEN << >>
    ELSE LET new  == matmulRunning(f, state, diag, n - 1)
             sums == matmulSums(f, [i \in Lanes |->
                                      IF i < n - 1 THEN new[i + 1] ELSE state[i]],
                                WIDTH)
         IN  Append(new, AddF(MulF(state[n - 1], diag[n - 1]), sums[WIDTH + 1]))

matmulInternalRunning(f, state, diag) ==
    [i \in Lanes |-> matmulRunning(f, state, diag, WIDTH)[i + 1]]

\* the second loop touches lane i alone in its iteration i, and reads
\* nothing but state[i], the diagonal and sum
matmulInternal(f, state, diag) ==
    LET sum == matmulSums(f, state, WIDTH)[WIDTH + 1]
    IN  [i \in Lanes |-> AddF(MulF(state[i], diag[i]), sum)]

diffusionPermuteMut(f, state) == matmulInternal(f, state, matInternalDiagM1(f))

\* the loop bounds of PermuteMut
rounds(f)        == NumExternalRounds + NumInternalRounds(f)
roundsFBeginning == NumExternalRounds \div 2
\* a variant: the internal rounds run to the last round
p_endLast(f) == NumExternalRounds + NumInternalRounds(f)
p_end(f)         == roundsFBeginning + NumInternalRounds(f)

\* the loop tests of PermuteMut: the statement that runs next when a loop is
\* entered, or re-entered, with counter r1
SecondHalfHead(f, r1) ==
    IF r1 < rounds(f) THEN "second.addRc" ELSE "done"

InternalHead(f, r1) ==
    IF r1 < p_end(f) THEN "internal.addRc" ELSE SecondHalfHead(f, p_end(f))

FirstHalfHead(f, r1) ==
    IF r1 < roundsFBeginning THEN "first.addRc"
    ELSE InternalHead(f, roundsFBeginning)

\* --------------------------------------------------------------------------
\* The on-chain proof encoder (utils.GetAggOnChainProof, ExportProof, Encode)
\* --------------------------------------------------------------------------

\* a[top] .. a[1] divided by the small d, from the top limb down: the
\* quotient's limbs (little-endian, high zeros kept) and the remainder
RECURSIVE BigDivSmallFrom(_, _, _)
BigDivSmallFrom(a, d, k) ==
    IF k > Len(a) THEN [q |-> <<>>, rem |-> 0]
    ELSE LET up  == BigDivSmallFrom(a, d, k + 1)
             cur == up.rem * Base + a[k]
         IN  [q |-> << cur \div d >> \o up.q, rem |-> cur % d]

BigDivSmall(a, d) == BigNorm(BigDivSmallFrom(a, d, 1).q)
BigModSmall(a, d) == BigDivSmallFrom(a, d, 1).rem

\* big.Int.Bytes: the big-endian bytes of x without leading zero bytes
\* (none at all for zero)
RECURSIVE Bytes(_)
Bytes(x) ==
    IF x = <<>> THEN <<>>
    ELSE Append(Bytes(BigDivSmall(x, 256)), BigModSmall(x, 256))

\* big.Int.FillBytes on a buffer of n bytes: big-endian, zero-extended on
\* the left (x fits: a field element has at most 32 bytes)
\* a variant: only the low n - 1 bytes of x reach the buffer
FillBytesLow(x, n) ==
    LET b == Bytes(x)
        t == IF Len(b) >= n THEN SubSeq(b, Len(b) - n + 2, Len(b)) ELSE b
    IN  [k \in 1..(n - Len(t)) |-> 0] \o t

FillBytes(x, n) ==
    LET b == Bytes(x)
    IN  [k \in 1..(n - Len(b)) |-> 0] \o b

HexDigits ==
    << "0", "1", "2", "3", "4", "5", "6", "7",
       "8", "9", "a", "b", "c", "d", "e", "f" >>

\* hex.Encode: two lower-case digits per byte, high nibble first
RECURSIVE hexEncode(_)
hexEncode(b) ==
    IF b = <<>> THEN <<>>
    ELSE << HexDigits[(Head(b) \div 16) + 1], HexDigits[(Head(b) % 16) + 1] >>
            \o hexEncode(Tail(b))

\* Encode: b as a hex string with the prefix 0x.  A string is the sequence
\* of its characters.
Encode(b) == << "0", "x" >> \o hexEncode(b)

\* ExportProof: the coordinates of the three points of a bn254 proof
ExportProof(proof) ==
    [a |-> << proof.Ar.X, proof.Ar.Y >>,
     b |-> << << proof.Bs.X.A1, proof.Bs.X.A0 >>,
              << proof.Bs.Y.A1, proof.Bs.Y.A0 >> >>,
     c |-> << proof.Krs.X, proof.Krs.Y >>]

\* GetAggOnChainProof up to its loop over the public witness: proofData,
\* and result with the eight coordinates, a comma after each
proofData(proof) ==
    LET e == ExportProof(proof)
    IN  [A |-> << Encode(Bytes(e.a[1])), Encode(Bytes(e.a[2])) >>,
         B |-> << << Encode(Bytes(e.b[1][1])), Encode(Bytes(e.b[1][2])) >>,
                  << Encode(Bytes(e.b[2][1])), Encode(Bytes(e.b[2][2])) >> >>,
         C |-> << Encode(Bytes(e.c[1])), Encode(Bytes(e.c[2])) >>]

\* a variant: the two coordinates of B[0] change places
resultOfProofSwapped(proof) ==
    LET d == proofData(proof)
    IN  d.A[1] \o <<",">> \o d.A[2] \o <<",">>
        \o d.B[1][2] \o <<",">> \o d.B[1][1] \o <<",">>
        \o d.B[2][1] \o <<",">> \o d.B[2][2] \o <<",">>
        \o d.C[1] \o <<",">> \o d.C[2] \o <<",">>

resultOfProof(proof) ==
    LET d == proofData(proof)
    IN  d.A[1] \o <<",">> \o d.A[2] \o <<",">>
        \o d.B[1][1] \o <<",">> \o d.B[1][2] \o <<",">>
        \o d.B[2][1] \o <<",">> \o d.B[2][2] \o <<",">>
        \o d.C[1] \o <<",">> \o d.C[2] \o <<",">>

\* one iteration of the loop over swVector (i counts from 0)
resultOfWitness(result, swVector, i) ==
    LET data == FillBytes(swVector[i + 1], 32)
    IN  IF i = Len(swVector) - 1
        THEN result \o Encode(data)
        ELSE result \o Encode(data) \o <<",">>

\* --------------------------------------------------------------------------
\* The chip in use: a circuit constructs a chip and calls Update, Finalize
\* or PermuteMut on it.  PermuteMut runs one statement per step.
\* --------------------------------------------------------------------------

VARIABLES
    field,        \* which chip: "bb" (Poseidon2BabyBearChip) or "kb"
    State,        \* the array PermuteMut works on: p.State for the sponge,
                  \* the circuit's input array for a direct PermuteMut call
    bufferCount,  \* p.bufferCount
    pc,           \* the statement about to run; "idle" between calls
    r,            \* the loop counter of PermuteMut
    caller,       \* who called the running PermuteMut
    input,        \* the argument of the last Update
    res,          \* what the last Finalize returned; <<>> before
    ran,          \* history: what the running PermuteMut has completed
    nUpdate,      \* history: calls of Update
    nFinalize,    \* history: calls of Finalize
    nPermute,     \* history: calls of PermuteMut
    nAfter,       \* history: calls made after the first Finalize
    entryBound    \* history: the largest UpperBound of the lanes the running
                  \* PermuteMut was called with; <<>> before the first call

\* the state of the proof encoder (utils.GetAggOnChainProof)
VARIABLES
    proof,        \* the groth16 proof handed to the encoder
    swVector,     \* the vector of the public witness
    result,       \* the string built so far, as the sequence of its characters
    encI,         \* the loop counter i of GetAggOnChainProof
    encPc         \* the statement of GetAggOnChainProof about to run

chipVars == << field, State, bufferCount, pc, r, caller, input, res, ran,
               nUpdate, nFinalize, nPermute, nAfter, entryBound >>

encVars == << proof, swVector, result, encI, encPc >>

\* the state of a prove entry point: the command BabyBearProve with
\* sdk.Prove, or the service's handler of POST /prove
VARIABLES
    entry,        \* "BabyBearProve", "service", or "none"
    fieldFlag,    \* the field selector: the service's flag -field
    provePc,      \* the statement of the entry point about to run
    vkFile,       \* the key at VK_PATH: "matching" the proving key or "foreign"
    Pk, Vk, Ccs,  \* the shared singletons: "empty" until loaded
    loadLock,     \* the counter of the wait group
    pkTask,       \* the goroutine reading the proving key
    ccsTask,      \* the goroutine compiling the circuit
    reafProveKeyErr, compileCcsErr,   \* TRUE for a non-nil error
    witness,      \* the assignment: does it satisfy the circuit, its public part
                  \* (witness, pf, written, response: empty, or the one value)
    solved,       \* test.IsSolved has returned nil for this witness
    pf,           \* the proof groth16.Prove returned
    verified,     \* groth16.Verify has returned nil for pf
    written,      \* the content of the file at PROOF_PATH
    response,     \* what the handler sent back
    err           \* what BabyBearProve returned

proveVars == << entry, fieldFlag, provePc, vkFile, Pk, Vk, Ccs, loadLock, pkTask, ccsTask,
                reafProveKeyErr, compileCcsErr, witness, solved, pf, verified,
                written, response, err >>

\* the state of the process around the entry points: the command line with
\* BabyBearCmd, the files, and the start of the service
VARIABLES
    mainSrc,      \* which main: "part_000" or "constraints.go"
    cmd,          \* the flag -cmd
    cmdPc,        \* the statement of main / BabyBearCmd about to run
    cmdErr,       \* what BabyBearCmd returned: <<>> while it runs, <<"nil">>,
                  \* or << message, cause >>
    dispatched,   \* what the field switch of main did
    witnessJson,  \* the file at WITNESS_JSON: the assignment it describes,
                  \* empty when it is malformed
    pkFile,       \* the file at PK_PATH
    ccsFile,      \* the file at the service's -ccs path
    solFile,      \* the file at SOLIDITY_PATH
    solveRet,     \* what DoBabyBearSolve returned
    populated,    \* how often Pk, Vk, Ccs were populated in this process
    loadReady,    \* the service's loadReady
    routes,       \* the routes the service has registered
    wg,           \* the counter of the wait group of the service's main
    pkLoad,       \* the service's goroutine reading the proving key
    ccsLoad       \* the service's goroutine reading the constraint system

cmdVars  == << mainSrc, cmd, cmdPc, cmdErr, dispatched, solveRet >>
fileVars == << witnessJson, pkFile, ccsFile, solFile >>
svcVars  == << loadReady, routes, wg, pkLoad, ccsLoad >>

procVars == << cmdVars, fileVars, svcVars, populated >>

\* what lives outside the circuit: no chip method touches it
hostVars == << encVars, proveVars, procVars >>

vars == << chipVars, hostVars >>

\* bounds of the model
MaxUpdate == 31
MaxAfter  == 1

\* what a circuit passes to Update
Inputs(f) == { NewFConst(f, Modulus(f) - 2) }

\* the arrays a circuit passes to PermuteMut directly
\* (all zero; canonical values; un-reduced sums, as a sponge lane holds)
DirectInputs(f) ==
    { [i \in Lanes |-> NewFConst(f, 0)],
      [i \in Lanes |-> NewFConst(f, Modulus(f) - 1 - i)],
      [i \in Lanes |-> AddF(NewFConst(f, Modulus(f) - 1),
                            NewFConst(f, Modulus(f) - 2 - 3 * i))] }

\* the largest UpperBound among the lanes 0 .. n-1 of state
RECURSIVE MaxBound(_, _)
MaxBound(state, n) ==
    IF n = 0 THEN <<>>
    ELSE LET m == MaxBound(state, n - 1)
         IN  IF BigLess(m, state[n - 1].UpperBound)
             THEN state[n - 1].UpperBound ELSE m

NothingRan == [initial |-> 0, first |-> 0, internal |-> 0, second |-> 0]

\* NewBabyBearChip / NewKoalaBearChip
NewChip(f) ==
    /\ field = f
    /\ State = [i \in Lanes |-> Zero(f)]
    /\ bufferCount = 0
    /\ pc = "idle"
    /\ r = 0
    /\ caller = "none"
    /\ input = Zero(f)
    /\ res = <<>>
    /\ ran = NothingRan
    /\ nUpdate = 0
    /\ nFinalize = 0
    /\ nPermute = 0
    /\ nAfter = 0
    /\ entryBound = <<>>

\* no proof is being encoded
EncoderIdle ==
    /\ proof = "none"
    /\ swVector = <<>>
    /\ result = <<>>
    /\ encI = 0
    /\ encPc = "idle"

\* no entry point is running
ProverIdle ==
    /\ entry = "none"
    /\ fieldFlag = "kb"
    /\ provePc = "idle"
    /\ vkFile = "matching"
    /\ Pk = "empty"
    /\ Vk = "empty"
    /\ Ccs = "empty"
    /\ loadLock = 0
    /\ pkTask = "none"
    /\ ccsTask = "none"
    /\ reafProveKeyErr = FALSE
    /\ compileCcsErr = FALSE
    /\ witness = { }
    /\ solved = FALSE
    /\ pf = { }
    /\ verified = FALSE
    /\ written = { }
    /\ response = { }
    /\ err = "none"

NothingPopulated == [Pk |-> 0, Vk |-> 0, Ccs |-> 0]

NoSolveRet == [circuit |-> "none", assigment |-> "none", err |-> "none"]

\* no process is running
ProcessIdle ==
    /\ mainSrc = "part_000"
    /\ cmd = "prove"
    /\ cmdPc = "idle"
    /\ cmdErr = <<>>
    /\ dispatched = "none"
    /\ witnessJson = { }
    /\ pkFile = "absent"
    /\ ccsFile = "absent"
    /\ solFile = "absent"
    /\ solveRet = NoSolveRet
    /\ populated = NothingPopulated
    /\ loadReady = FALSE
    /\ routes = { }
    /\ wg = 0
    /\ pkLoad = "none"
    /\ ccsLoad = "none"

Init ==
    /\ \E f \in Fields : NewChip(f)
    /\ EncoderIdle
    /\ ProverIdle
    /\ ProcessIdle

CallsLeft == nFinalize = 0 \/ nAfter < MaxAfter

\* a variant: Update stores its input over the lane
UpdateOverwrite ==
    /\ pc = "idle"
    /\ nUpdate < MaxUpdate
    /\ CallsLeft
    /\ \E x \in Inputs(field) :
        /\ input' = x
        /\ State' = [State EXCEPT ![bufferCount] = x]
    /\ bufferCount' = bufferCount + 1
    /\ nUpdate' = nUpdate + 1
    /\ nAfter' = IF nFinalize > 0 THEN nAfter + 1 ELSE nAfter
    /\ IF bufferCount + 1 = RATE
       THEN /\ pc' = "initialLinearLayer"
            /\ caller' = "Update"
            /\ ran' = NothingRan
            /\ nPermute' = nPermute + 1
            /\ entryBound' = MaxBound(State', WIDTH)
       ELSE UNCHANGED << pc, caller, ran, nPermute, entryBound >>
    /\ UNCHANGED hostVars
    /\ UNCHANGED << field, r, res, nFinalize >>

Update ==
    /\ pc = "idle"
    /\ nUpdate < MaxUpdate
    /\ CallsLeft
    /\ \E x \in Inputs(field) :
        /\ input' = x
        /\ State' = [State EXCEPT ![bufferCount] = AddF(State[bufferCount], x)]
    /\ bufferCount' = bufferCount + 1
    /\ nUpdate' = nUpdate + 1
    /\ nAfter' = IF nFinalize > 0 THEN nAfter + 1 ELSE nAfter
    /\ IF bufferCount + 1 = RATE
       THEN /\ pc' = "initialLinearLayer"
            /\ caller' = "Update"
            /\ ran' = NothingRan
            /\ nPermute' = nPermute + 1
            /\ entryBound' = MaxBound(State', WIDTH)
       ELSE UNCHANGED << pc, caller, ran, nPermute, entryBound >>
    /\ UNCHANGED hostVars
    /\ UNCHANGED << field, r, res, nFinalize >>

\* a variant: the position is not set back after the permutation
UpdateReturnKeep ==
    /\ pc = "done"
    /\ caller = "Update"
    /\ bufferCount' = bufferCount
    /\ pc' = "idle"
    /\ UNCHANGED hostVars
    /\ UNCHANGED << field, State, r, caller, input, res, ran,
                    nUpdate, nFinalize, nPermute, nAfter, entryBound >>

\* PermuteMut has returned to Update
UpdateReturn ==
    /\ pc = "done"
    /\ caller = "Update"
    /\ bufferCount' = 0
    /\ pc' = "idle"
    /\ UNCHANGED hostVars
    /\ UNCHANGED << field, State, r, caller, input, res, ran,
                    nUpdate, nFinalize, nPermute, nAfter, entryBound >>

\* a variant: Finalize always marks lane 0
FinalizeLaneZero ==
    /\ pc = "idle"
    /\ CallsLeft
    /\ State' = [State EXCEPT ![0] = AddF(State[0], One(field))]
    /\ pc' = "initialLinearLayer"
    /\ caller' = "Finalize"
    /\ ran' = NothingRan
    /\ nPermute' = nPermute + 1
    /\ entryBound' = MaxBound(State', WIDTH)
    /\ nFinalize' = nFinalize + 1
    /\ nAfter' = IF nFinalize > 0 THEN nAfter + 1 ELSE nAfter
    /\ UNCHANGED hostVars
    /\ UNCHANGED << field, bufferCount, r, input, res, nUpdate >>

Finalize ==
    /\ pc = "idle"
    /\ CallsLeft
    /\ State' = IF bufferCount > 0
                THEN [State EXCEPT ![bufferCount] =
                          AddF(State[bufferCount], One(field))]
                ELSE [State EXCEPT ![0] = AddF(State[0], One(field))]
    /\ pc' = "initialLinearLayer"
    /\ caller' = "Finalize"
    /\ ran' = NothingRan
    /\ nPermute' = nPermute + 1
    /\ entryBound' = MaxBound(State', WIDTH)
    /\ nFinalize' = nFinalize + 1
    /\ nAfter' = IF nFinalize > 0 THEN nAfter + 1 ELSE nAfter
    /\ UNCHANGED hostVars
    /\ UNCHANGED << field, bufferCount, r, input, res, nUpdate >>

\* PermuteMut has returned to Finalize: copy the state out and return it
FinalizeReturn ==
    /\ pc = "done"
    /\ caller = "Finalize"
    /\ res' = [i \in 0..15 |-> State[i]]
    /\ pc' = "idle"
    /\ UNCHANGED hostVars
    /\ UNCHANGED << field, State, bufferCount, r, caller, input, ran,
                    nUpdate, nFinalize, nPermute, nAfter, entryBound >>

\* what no statement of PermuteMut touches
PermuteFrame ==
    UNCHANGED << field, bufferCount, caller, input, res,
                 nUpdate, nFinalize, nPermute, nAfter, entryBound, hostVars >>

\* p.externalLinearLayer(state), the first statement of PermuteMut
InitialLinearLayer ==
    /\ pc = "initialLinearLayer"
    /\ State' = externalLinearLayer(State)
    /\ r' = 0
    /\ pc' = FirstHalfHead(field, 0)
    /\ ran' = [ran EXCEPT !.initial = @ + 1]
    /\ PermuteFrame

\* the first half of the external rounds
FirstAddRc ==
    /\ pc = "first.addRc"
    /\ State' = addRc(State, rc16(field)[r])
    /\ pc' = "first.sbox"
    /\ UNCHANGED << r, ran >>
    /\ PermuteFrame

FirstSbox ==
    /\ pc = "first.sbox"
    /\ State' = sbox(field, State)
    /\ pc' = "first.linearLayer"
    /\ UNCHANGED << r, ran >>
    /\ PermuteFrame

FirstLinearLayer ==
    /\ pc = "first.linearLayer"
    /\ State' = externalLinearLayer(State)
    /\ r' = r + 1
    /\ pc' = FirstHalfHead(field, r + 1)
    /\ ran' = [ran EXCEPT !.first = @ + 1]
    /\ PermuteFrame

\* a variant: the internal rounds add the whole row of constants
InternalAddRcAllLanes ==
    /\ pc = "internal.addRc"
    /\ State' = addRc(State, rc16(field)[r])
    /\ pc' = "internal.sboxP"
    /\ UNCHANGED << r, ran >>
    /\ PermuteFrame

\* the internal rounds
InternalAddRc ==
    /\ pc = "internal.addRc"
    /\ State' = [State EXCEPT ![0] = AddF(State[0], rc16(field)[r][0])]
    /\ pc' = "internal.sboxP"
    /\ UNCHANGED << r, ran >>
    /\ PermuteFrame

InternalSboxP ==
    /\ pc = "internal.sboxP"
    /\ State' = [State EXCEPT ![0] = sboxP(field, State[0])]
    /\ pc' = "internal.diffusion"
    /\ UNCHANGED << r, ran >>
    /\ PermuteFrame

InternalDiffusion ==
    /\ pc = "internal.diffusion"
    /\ State' = diffusionPermuteMut(field, State)
    /\ r' = r + 1
    /\ pc' = InternalHead(field, r + 1)
    /\ ran' = [ran EXCEPT !.internal = @ + 1]
    /\ PermuteFrame

\* a variant: the second half reads the rows that follow the first half's
SecondAddRcExternalRows ==
    /\ pc = "second.addRc"
    /\ State' = addRc(State, rc16(field)[r - NumInternalRounds(field)])
    /\ pc' = "second.sbox"
    /\ UNCHANGED << r, ran >>
    /\ PermuteFrame

\* the second half of the external rounds
SecondAddRc ==
    /\ pc = "second.addRc"
    /\ State' = addRc(State, rc16(field)[r])
    /\ pc' = "second.sbox"
    /\ UNCHANGED << r, ran >>
    /\ PermuteFrame

SecondSbox ==
    /\ pc = "second.sbox"
    /\ State' = sbox(field, State)
    /\ pc' = "second.linearLayer"
    /\ UNCHANGED << r, ran >>
    /\ PermuteFrame

SecondLinearLayer ==
    /\ pc = "second.linearLayer"
    /\ State' = externalLinearLayer(State)
    /\ r' = r + 1
    /\ pc' = SecondHalfHead(field, r + 1)
    /\ ran' = [ran EXCEPT !.second = @ + 1]
    /\ PermuteFrame

PermuteMut ==
    \/ InitialLinearLayer
    \/ FirstAddRc
    \/ FirstSbox
    \/ FirstLinearLayer
    \/ InternalAddRc
    \/ InternalSboxP
    \/ InternalDiffusion
    \/ SecondAddRc
    \/ SecondSbox
    \/ SecondLinearLayer

\* the sponge: a fresh chip, then Update and Finalize in any order
Next ==
    \/ Update
    \/ UpdateReturn
    \/ Finalize
    \/ FinalizeReturn
    \/ PermuteMut

Spec == Init /\ [][Next]_vars

\* A circuit whose Define calls PermuteMut on an array of its own, as the
\* test circuits do.
InitDirect ==
    \E f \in Fields : \E in \in DirectInputs(f) :
        /\ field = f
        /\ State = in
        /\ bufferCount = 0
        /\ pc = "initialLinearLayer"
        /\ r = 0
        /\ caller = "Define"
        /\ input = Zero(f)
        /\ res = <<>>
        /\ ran = NothingRan
        /\ nUpdate = 0
        /\ nFinalize = 0
        /\ nPermute = 1
        /\ nAfter = 0
        /\ entryBound = MaxBound(in, WIDTH)
        /\ EncoderIdle
        /\ ProverIdle
        /\ ProcessIdle

NextDirect == PermuteMut

SpecDirect == InitDirect /\ [][NextDirect]_vars

\* --------------------------------------------------------------------------
\* The encoder in use: GetAggOnChainProof called on a proof and a public
\* witness
\* --------------------------------------------------------------------------

MaxWitness == 2

\* a coordinate of 254 bits (32 bytes), and one of 248 bits (31 bytes)
Wide(k)  == BigAdd(BigShift(<< 2^13 >>, 16), BigFromInt(k))
Short(k) == BigAdd(BigShift(<< 2^7 >>, 16), BigFromInt(k))

\* a groth16_bn254.Proof with the coordinates x[1] .. x[8]
ProofOf(x) ==
    [Ar  |-> [X |-> x[1], Y |-> x[2]],
     Bs  |-> [X |-> [A0 |-> x[3], A1 |-> x[4]],
              Y |-> [A0 |-> x[5], A1 |-> x[6]]],
     Krs |-> [X |-> x[7], Y |-> x[8]]]

\* proofs the prover can return: coordinates of full width; Ar the generator
\* (1, 2) of G1; coordinates of Bs, of Krs that are short of 32 bytes
Proofs ==
    { ProofOf([k \in 1..8 |-> Wide(k)]),
      ProofOf(<< <<1>>, <<2>>, Wide(3), Wide(4), Wide(5), Wide(6),
                 Wide(7), Wide(8) >>),
      ProofOf(<< Wide(1), Wide(2), Short(3), Wide(4), Wide(5), Short(6),
                 Wide(7), Wide(8) >>),
      ProofOf(<< Wide(8), Wide(7), Wide(6), Wide(5), Wide(4), Wide(3),
                 Short(2), Short(1) >>) }

\* elements of the scalar field: 0, 1 and the largest one
WitnessValues == { <<>>, <<1>>, BigSub(NativeModulus, <<1>>) }

Vectors == UNION { [1..n -> WitnessValues] : n \in 0..MaxWitness }

\* lines 70-134: the eight coordinates
EncodeProof ==
    /\ encPc = "proof"
    /\ result' = resultOfProof(proof)
    /\ encI' = 0
    /\ encPc' = "witness"
    /\ UNCHANGED << proof, swVector >>
    /\ UNCHANGED << chipVars, proveVars, procVars >>

\* lines 141-150: one iteration of the loop over the public witness
EncodeWitness ==
    /\ encPc = "witness"
    /\ encI < Len(swVector)
    /\ result' = resultOfWitness(result, swVector, encI)
    /\ encI' = encI + 1
    /\ UNCHANGED << proof, swVector, encPc >>
    /\ UNCHANGED << chipVars, proveVars, procVars >>

\* line 151: return result, nil
EncodeReturn ==
    /\ encPc = "witness"
    /\ encI >= Len(swVector)
    /\ encPc' = "done"
    /\ UNCHANGED << proof, swVector, result, encI >>
    /\ UNCHANGED << chipVars, proveVars, procVars >>

GetAggOnChainProof ==
    \/ EncodeProof
    \/ EncodeWitness
    \/ EncodeReturn

InitEncode ==
    /\ NewChip("bb")
    /\ proof \in Proofs
    /\ swVector \in Vectors
    /\ result = <<>>
    /\ encI = 0
    /\ encPc = "proof"
    /\ ProverIdle
    /\ ProcessIdle

NextEncode == GetAggOnChainProof

SpecEncode == InitEncode /\ [][NextEncode]_vars

\* --------------------------------------------------------------------------
\* The prove entry points: the command BabyBearProve with sdk.Prove, and the
\* service with its handler of POST /prove
\* --------------------------------------------------------------------------

keyVars   == << vkFile, Pk, Vk, Ccs >>
taskVars  == << loadLock, pkTask, ccsTask, reafProveKeyErr, compileCcsErr >>
proofVars == << witness, solved, pf, verified >>
outVars   == << written, response, err >>

\* the assignments a witness description can give: satisfying the circuit or
\* not, with the public inputs of the circuit
Witnesses ==
    { [satisfies |-> b, public |-> v] :
          b \in BOOLEAN, v \in { u \in Vectors : Len(u) >= 1 } }

\* return fmt.Errorf(msg) from BabyBearProve or sdk.Prove
\* the value an optional variable holds
The(S) == CHOOSE x \in S : TRUE

ReturnErr(msg) ==
    /\ err' = msg
    /\ provePc' = "returned"

\* lines 401-407: loadLock.Add(2) and the goroutine reading the proving key
BabyBearProveStart ==
    /\ entry = "BabyBearProve"
    /\ provePc = "start"
    /\ loadLock' = loadLock + 2
    /\ pkTask' = "running"
    /\ provePc' = "readVk"
    /\ UNCHANGED << procVars, entry, fieldFlag, keyVars, ccsTask, reafProveKeyErr,
                    compileCcsErr, proofVars, outVars >>
    /\ UNCHANGED << chipVars, encVars >>

\* lines 404-407: the goroutine reads the proving key into Pk
ReadProvingKeyTask ==
    /\ pkTask = "running"
    /\ \E ok \in BOOLEAN :
           /\ Pk' = IF ok THEN "loaded" ELSE Pk
           /\ populated' = IF ok THEN [populated EXCEPT !.Pk = @ + 1]
                                  ELSE populated
           /\ reafProveKeyErr' = ~ok
    /\ loadLock' = loadLock - 1
    /\ pkTask' = "done"
    /\ UNCHANGED << cmdVars, fileVars, svcVars, entry, fieldFlag, provePc, vkFile, Vk, Ccs, ccsTask,
                    compileCcsErr, proofVars, outVars >>
    /\ UNCHANGED << chipVars, encVars >>

\* lines 409-412: utils.ReadVerifyingKey(VK_PATH, Vk)
ReadVerifyingKey ==
    /\ provePc = "readVk"
    /\ \E ok \in BOOLEAN :
           IF ok
           THEN /\ Vk' = vkFile
                /\ populated' = [populated EXCEPT !.Vk = @ + 1]
                /\ provePc' = "readWitness"
                /\ err' = err
           ELSE /\ Vk' = Vk
                /\ populated' = populated
                /\ ReturnErr("failed to read verifing key")
    /\ UNCHANGED << cmdVars, fileVars, svcVars, entry, fieldFlag, vkFile, Pk, Ccs, taskVars, proofVars,
                    written, response >>
    /\ UNCHANGED << chipVars, encVars >>

\* lines 414-419: os.ReadFile(witnessFile)
ReadWitnessFile ==
    /\ provePc = "readWitness"
    /\ \E ok \in BOOLEAN :
           IF ok
           THEN provePc' = "unmarshal" /\ err' = err
           ELSE ReturnErr("fail to read witness file")
    /\ UNCHANGED << procVars, entry, fieldFlag, keyVars, taskVars, proofVars,
                    written, response >>
    /\ UNCHANGED << chipVars, encVars >>

\* lines 421-427: json.Unmarshal and NewCircuit
Unmarshal ==
    /\ provePc = "unmarshal"
    /\ IF witnessJson # { }
       THEN /\ witness' = witnessJson
            /\ provePc' = "solve"
            /\ err' = err
       ELSE /\ witness' = witness
            /\ ReturnErr("failed to parse witness json")
    /\ UNCHANGED << procVars, entry, fieldFlag, keyVars, taskVars, solved, pf,
                    verified, written, response >>
    /\ UNCHANGED << chipVars, encVars >>

\* lines 429-432: test.IsSolved(circuit, assigment, ...)
Solve ==
    /\ provePc = "solve"
    /\ IF The(witness).satisfies
       THEN /\ solved' = TRUE
            /\ provePc' = "newWitness"
            /\ err' = err
       ELSE /\ solved' = solved
            /\ ReturnErr("failed to solve")
    /\ UNCHANGED << procVars, entry, fieldFlag, keyVars, taskVars, witness, pf, verified,
                    written, response >>
    /\ UNCHANGED << chipVars, encVars >>

\* lines 434-453: the full and the public witness of the solved assignment,
\* and the goroutine compiling the circuit
SpawnCompile ==
    /\ provePc = "newWitness"
    /\ ccsTask' = "running"
    /\ provePc' = "wait"
    /\ UNCHANGED << procVars, entry, fieldFlag, keyVars, loadLock, pkTask,
                    reafProveKeyErr, compileCcsErr, proofVars, outVars >>
    /\ UNCHANGED << chipVars, encVars >>

\* lines 444-453: the goroutine compiles the circuit into Ccs
CompileTask ==
    /\ ccsTask = "running"
    /\ \E ok \in BOOLEAN :
           /\ Ccs' = IF ok THEN "compiled" ELSE Ccs
           /\ populated' = IF ok THEN [populated EXCEPT !.Ccs = @ + 1]
                                  ELSE populated
           /\ compileCcsErr' = ~ok
    /\ loadLock' = loadLock - 1
    /\ ccsTask' = "done"
    /\ UNCHANGED << cmdVars, fileVars, svcVars, entry, fieldFlag, provePc, vkFile, Pk, Vk, pkTask,
                    reafProveKeyErr, proofVars, outVars >>
    /\ UNCHANGED << chipVars, encVars >>

\* a variant: the tasks' errors are read without loadLock.Wait()
WaitAndCheckNoWait ==
    /\ provePc = "wait"
    /\ IF compileCcsErr
       THEN ReturnErr("fail to compile compiler")
       ELSE IF reafProveKeyErr
       THEN ReturnErr("fail to read reproving key")
       ELSE provePc' = "groth16.Prove" /\ err' = err
    /\ UNCHANGED << procVars, entry, fieldFlag, keyVars, taskVars, proofVars,
                    written, response >>
    /\ UNCHANGED << chipVars, encVars >>

\* lines 455-462: loadLock.Wait() and the tasks' errors
WaitAndCheck ==
    /\ provePc = "wait"
    /\ loadLock = 0
    /\ IF compileCcsErr
       THEN ReturnErr("fail to compile compiler")
       ELSE IF reafProveKeyErr
       THEN ReturnErr("fail to read reproving key")
       ELSE provePc' = "groth16.Prove" /\ err' = err
    /\ UNCHANGED << procVars, entry, fieldFlag, keyVars, taskVars, proofVars,
                    written, response >>
    /\ UNCHANGED << chipVars, encVars >>

\* groth16.Prove(Ccs, Pk, fullWitness): the prover solves the constraint
\* system with the witness first and returns an error if that fails;
\* otherwise it returns a proof
CanProve == The(witness).satisfies /\ Pk = "loaded" /\ Ccs = "compiled"

\* sdk.Prove, lines 236-239
ProveGroth16 ==
    /\ provePc = "groth16.Prove"
    /\ IF CanProve
       THEN /\ pf' \in { {p} : p \in Proofs }
            /\ provePc' = "groth16.Verify"
            /\ err' = err
       ELSE /\ pf' = pf
            /\ ReturnErr("failed to prove")
    /\ UNCHANGED << procVars, entry, fieldFlag, keyVars, taskVars, witness, solved,
                    verified, written, response >>
    /\ UNCHANGED << chipVars, encVars >>

\* a variant: the error of groth16.Verify is dropped
ProveVerifyIgnored ==
    /\ provePc = "groth16.Verify"
    /\ verified' = (Vk = "matching")
    /\ provePc' = "GetAggOnChainProof"
    /\ UNCHANGED << procVars, entry, fieldFlag, keyVars, taskVars, witness, solved, pf,
                    outVars >>
    /\ UNCHANGED << chipVars, encVars >>

\* sdk.Prove, lines 241-244: groth16.Verify(pf, Vk, pubWitness) accepts the
\* proof under the verifying key that belongs to the proving key
ProveVerify ==
    /\ provePc = "groth16.Verify"
    /\ IF Vk = "matching"
       THEN /\ verified' = TRUE
            /\ provePc' = "GetAggOnChainProof"
            /\ err' = err
       ELSE /\ verified' = verified
            /\ ReturnErr("failed to verify proof")
    /\ UNCHANGED << procVars, entry, fieldFlag, keyVars, taskVars, witness, solved, pf,
                    written, response >>
    /\ UNCHANGED << chipVars, encVars >>

\* the call utils.GetAggOnChainProof(pf, pubWitness)
CallEncoder ==
    /\ proof' = The(pf)
    /\ swVector' = The(witness).public
    /\ result' = <<>>
    /\ encI' = 0
    /\ encPc' = "proof"

\* sdk.Prove, line 246
ProveEncode ==
    /\ provePc = "GetAggOnChainProof"
    /\ CallEncoder
    /\ provePc' = "WriteFile"
    /\ UNCHANGED << procVars, entry, fieldFlag, keyVars, taskVars, proofVars, outVars >>
    /\ UNCHANGED chipVars

\* sdk.Prove, lines 251-260: ioutil.WriteFile(PROOF_PATH, []byte(res), 0644)
ProveWrite ==
    /\ provePc = "WriteFile"
    /\ encPc = "done"
    /\ \E ok \in BOOLEAN :
           IF ok
           THEN written' = { result } /\ err' = "nil"
           ELSE written' = written /\ err' = "failed to write res"
    /\ provePc' = "returned"
    /\ encPc' = "idle"
    /\ UNCHANGED << procVars, entry, fieldFlag, keyVars, taskVars, proofVars, response >>
    /\ UNCHANGED << chipVars, proof, swVector, result, encI >>

Prove ==
    \/ ProveGroth16
    \/ ProveVerify
    \/ ProveEncode
    \/ ProveWrite

BabyBearProve ==
    \/ BabyBearProveStart
    \/ ReadProvingKeyTask
    \/ ReadVerifyingKey
    \/ ReadWitnessFile
    \/ Unmarshal
    \/ Solve
    \/ SpawnCompile
    \/ CompileTask
    \/ WaitAndCheck
    \/ Prove

\* the service's main, lines 65-90 of the listing: wg.Add(2) and the two
\* goroutines
ServiceStart ==
    /\ entry = "service"
    /\ provePc = "main"
    /\ wg' = 2
    /\ pkLoad' = "running"
    /\ ccsLoad' = "running"
    /\ provePc' = "wg.Wait"
    /\ UNCHANGED << cmdVars, fileVars, loadReady, routes, populated >>
    /\ UNCHANGED << entry, fieldFlag, keyVars, taskVars, proofVars, outVars >>
    /\ UNCHANGED << chipVars, encVars >>

\* a variant: a failed read of the proving key is logged and the goroutine
\* ends as after a good one
LoadPkLogged ==
    /\ entry = "service"
    /\ provePc # "aborted"
    /\ pkLoad = "running"
    /\ \E ok \in (IF pkFile = "absent" THEN { FALSE } ELSE BOOLEAN) :
           /\ Pk' = IF ok THEN "loaded" ELSE Pk
           /\ populated' = IF ok THEN [populated EXCEPT !.Pk = @ + 1]
                                  ELSE populated
           /\ pkLoad' = IF ok THEN "done" ELSE "failed"
    /\ wg' = wg - 1
    /\ UNCHANGED << cmdVars, fileVars, loadReady, routes, ccsLoad >>
    /\ UNCHANGED << entry, fieldFlag, provePc, vkFile, Vk, Ccs, taskVars,
                    proofVars, outVars >>
    /\ UNCHANGED << chipVars, encVars >>

\* lines 73-81: utils.ReadProvingKey(*pkPath, Pk); log.Fatalf ends the
\* process, the deferred wg.Done() does not run
LoadPk ==
    /\ entry = "service"
    /\ provePc # "aborted"
    /\ pkLoad = "running"
    /\ \E ok \in (IF pkFile = "absent" THEN { FALSE } ELSE BOOLEAN) :
           IF ok
           THEN /\ Pk' = "loaded"
                /\ populated' = [populated EXCEPT !.Pk = @ + 1]
                /\ wg' = wg - 1
                /\ pkLoad' = "done"
                /\ provePc' = provePc
           ELSE /\ Pk' = Pk
                /\ populated' = populated
                /\ wg' = wg
                /\ pkLoad' = "fatal"
                /\ provePc' = "aborted"
    /\ UNCHANGED << cmdVars, fileVars, loadReady, routes, ccsLoad >>
    /\ UNCHANGED << entry, fieldFlag, vkFile, Vk, Ccs, taskVars, proofVars,
                    outVars >>
    /\ UNCHANGED << chipVars, encVars >>

\* lines 82-90: utils.ReadCcs(*ccsPath, Ccs)
LoadCcs ==
    /\ entry = "service"
    /\ provePc # "aborted"
    /\ ccsLoad = "running"
    /\ \E ok \in (IF ccsFile = "absent" THEN { FALSE } ELSE BOOLEAN) :
           IF ok
           THEN /\ Ccs' = "compiled"
                /\ populated' = [populated EXCEPT !.Ccs = @ + 1]
                /\ wg' = wg - 1
                /\ ccsLoad' = "done"
                /\ provePc' = provePc
           ELSE /\ Ccs' = Ccs
                /\ populated' = populated
                /\ wg' = wg
                /\ ccsLoad' = "fatal"
                /\ provePc' = "aborted"
    /\ UNCHANGED << cmdVars, fileVars, loadReady, routes, pkLoad >>
    /\ UNCHANGED << entry, fieldFlag, vkFile, Pk, Vk, taskVars, proofVars,
                    outVars >>
    /\ UNCHANGED << chipVars, encVars >>

\* lines 91-92: wg.Wait(); loadReady = true
ServiceWait ==
    /\ provePc = "wg.Wait"
    /\ wg = 0
    /\ loadReady' = TRUE
    /\ provePc' = "routes"
    /\ UNCHANGED << cmdVars, fileVars, routes, wg, pkLoad, ccsLoad, populated >>
    /\ UNCHANGED << entry, fieldFlag, keyVars, taskVars, proofVars, outVars >>
    /\ UNCHANGED << chipVars, encVars >>

\* lines 94-95: e.POST("/ready", Ready); e.POST("/prove", Prove)
ServiceRoutes ==
    /\ provePc = "routes"
    /\ routes' = { "/ready", "/prove" }
    /\ provePc' = "e.Start"
    /\ UNCHANGED << cmdVars, fileVars, loadReady, wg, pkLoad, ccsLoad,
                    populated >>
    /\ UNCHANGED << entry, fieldFlag, keyVars, taskVars, proofVars, outVars >>
    /\ UNCHANGED << chipVars, encVars >>

\* lines 97-101: e.Start; log.Fatalf when the server cannot start
ServiceListen ==
    /\ provePc = "e.Start"
    /\ \E ok \in BOOLEAN :
           provePc' = IF ok THEN "serving" ELSE "aborted"
    /\ UNCHANGED << procVars, entry, fieldFlag, keyVars, taskVars, proofVars,
                    outVars >>
    /\ UNCHANGED << chipVars, encVars >>

ServiceMain ==
    \/ ServiceStart
    \/ LoadPk
    \/ LoadCcs
    \/ ServiceWait
    \/ ServiceRoutes
    \/ ServiceListen

\* c.String(http.StatusInternalServerError, msg), and an error the handler
\* returns, which the framework answers with status 500
Respond(status, body) ==
    /\ response' = { [status |-> status, body |-> body] }
    /\ provePc' = "responded"

\* the handler, lines 117-120: c.Bind(payload)
HandlerBind ==
    /\ provePc = "serving"
    /\ "/prove" \in routes
    /\ \E ok \in BOOLEAN :
           IF ok
           THEN provePc' = "GetWitnessFromHex" /\ response' = response
           ELSE Respond(500, "bind error")
    /\ UNCHANGED << procVars, entry, fieldFlag, keyVars, taskVars, proofVars, written, err >>
    /\ UNCHANGED << chipVars, encVars >>

\* the handler, lines 122-125, and GetWitnessFromHex
GetWitnessFromHex ==
    /\ provePc = "GetWitnessFromHex"
    /\ IF fieldFlag \in { "kb", "bb" }
       THEN \E ok \in BOOLEAN :
                IF ok
                THEN /\ witness' \in { {w} : w \in Witnesses }
                     /\ provePc' = "svc.groth16.Prove"
                     /\ response' = response
                ELSE /\ witness' = witness
                     /\ Respond(500, "witness error")
       ELSE /\ witness' = witness
            /\ Respond(500, "invalid field")
    /\ UNCHANGED << procVars, entry, fieldFlag, keyVars, taskVars, solved, pf, verified,
                    written, err >>
    /\ UNCHANGED << chipVars, encVars >>

\* the handler, lines 126-129: groth16.Prove(Ccs, Pk, fullWitness)
HandlerGroth16 ==
    /\ provePc = "svc.groth16.Prove"
    /\ IF CanProve
       THEN /\ pf' \in { {p} : p \in Proofs }
            /\ provePc' = "svc.GetAggOnChainProof"
            /\ response' = response
       ELSE /\ pf' = pf
            /\ Respond(500, "Internal Server Error")
    /\ UNCHANGED << procVars, entry, fieldFlag, keyVars, taskVars, witness, solved,
                    verified, written, err >>
    /\ UNCHANGED << chipVars, encVars >>

\* the handler, line 131
HandlerEncode ==
    /\ provePc = "svc.GetAggOnChainProof"
    /\ CallEncoder
    /\ provePc' = "svc.Encode"
    /\ UNCHANGED << procVars, entry, fieldFlag, keyVars, taskVars, proofVars, outVars >>
    /\ UNCHANGED chipVars

\* json.Encoder.Encode of a Go string without characters to escape: the
\* string in double quotes, and a newline
JsonString(str) == << "\"" >> \o str \o << "\"", "\n" >>

\* json.Encoder.Encode of ProveResp{ProofData: str}, the type declared for
\* the answer
JsonProveResp(str) ==
    << "{", "\"", "p", "r", "o", "o", "f", "_", "d", "a", "t", "a", "\"", ":",
       "\"" >> \o str \o << "\"", "}", "\n" >>

\* the handler, line 136: json.NewEncoder(c.Response()).Encode(res)
HandlerRespond ==
    /\ provePc = "svc.Encode"
    /\ encPc = "done"
    /\ Respond(200, JsonString(result))
    /\ encPc' = "idle"
    /\ UNCHANGED << procVars, entry, fieldFlag, keyVars, taskVars, proofVars, written, err >>
    /\ UNCHANGED << chipVars, proof, swVector, result, encI >>

ProveHandler ==
    \/ HandlerBind
    \/ GetWitnessFromHex
    \/ HandlerGroth16
    \/ HandlerEncode
    \/ HandlerRespond

InitProve ==
    /\ NewChip("bb")
    /\ EncoderIdle
    /\ entry \in { "BabyBearProve", "service" }
    /\ fieldFlag \in IF entry = "service" THEN { "kb", "bb", "m31" } ELSE { "bb" }
    /\ provePc = IF entry = "service" THEN "main" ELSE "start"
    /\ vkFile \in { "matching", "foreign" }
    /\ Pk = "empty"
    /\ Vk = "empty"
    /\ Ccs = "empty"
    /\ loadLock = 0
    /\ pkTask = "none"
    /\ ccsTask = "none"
    /\ reafProveKeyErr = FALSE
    /\ compileCcsErr = FALSE
    /\ witness = { }
    /\ solved = FALSE
    /\ pf = { }
    /\ verified = FALSE
    /\ written = { }
    /\ response = { }
    /\ err = "none"
    /\ mainSrc = "part_000"
    /\ cmd = "prove"
    /\ cmdPc = "idle"
    /\ cmdErr = <<>>
    /\ dispatched = "none"
    /\ witnessJson \in IF entry = "service" THEN { { } }
                       ELSE { { } } \cup { {w} : w \in Witnesses }
    /\ pkFile \in IF entry = "service" THEN { "absent", "present" }
                  ELSE { "present" }
    /\ ccsFile \in IF entry = "service" THEN { "absent", "present" }
                   ELSE { "absent" }
    /\ solFile = "absent"
    /\ solveRet = NoSolveRet
    /\ populated = NothingPopulated
    /\ loadReady = FALSE
    /\ routes = { }
    /\ wg = 0
    /\ pkLoad = "none"
    /\ ccsLoad = "none"

NextProve ==
    \/ BabyBearProve
    \/ ServiceMain
    \/ ProveHandler
    \/ GetAggOnChainProof

SpecProve == InitProve /\ [][NextProve]_vars

\* --------------------------------------------------------------------------
\* The command line: main, BabyBearCmd, DoBabyBearSolve, BabyBearSetup and
\* ExportSolidify
\* --------------------------------------------------------------------------

\* what no step of DoBabyBearSolve, BabyBearSetup or ExportSolidify touches
FuncFrame ==
    /\ UNCHANGED << mainSrc, cmd, cmdPc, cmdErr, dispatched, svcVars >>
    /\ UNCHANGED << entry, fieldFlag, taskVars, written, response >>
    /\ UNCHANGED << chipVars, encVars >>

\* return nil, nil, fmt.Errorf(msg) from DoBabyBearSolve
SolveReturnErr(msg) ==
    /\ solveRet' = [circuit |-> "nil", assigment |-> "nil", err |-> msg]
    /\ provePc' = "dbs.returned"

\* DoBabyBearSolve, lines 327-332: os.ReadFile(witnessFile)
SolveReadFile ==
    /\ provePc = "dbs.readFile"
    /\ \E ok \in BOOLEAN :
           IF ok
           THEN provePc' = "dbs.unmarshal" /\ solveRet' = solveRet
           ELSE SolveReturnErr("fail to read witness file")
    /\ UNCHANGED << keyVars, proofVars, err, fileVars, populated >>
    /\ FuncFrame

\* DoBabyBearSolve, lines 334-340: json.Unmarshal and NewCircuit
SolveUnmarshal ==
    /\ provePc = "dbs.unmarshal"
    /\ IF witnessJson # { }
       THEN /\ witness' = witnessJson
            /\ provePc' = "dbs.isSolved"
            /\ solveRet' = solveRet
       ELSE /\ witness' = witness
            /\ SolveReturnErr("failed to parse witness json")
    /\ UNCHANGED << keyVars, solved, pf, verified, err, fileVars, populated >>
    /\ FuncFrame

\* a variant: the circuit and the assignment are returned with the error
SolveIsSolvedKeep ==
    /\ provePc = "dbs.isSolved"
    /\ solved' = The(witness).satisfies
    /\ solveRet' = [circuit |-> "circuit", assigment |-> "assigment",
                    err |-> IF The(witness).satisfies THEN "nil"
                            ELSE "failed to solve"]
    /\ provePc' = "dbs.returned"
    /\ UNCHANGED << keyVars, witness, pf, verified, err, fileVars, populated >>
    /\ FuncFrame

\* DoBabyBearSolve, lines 342-348: test.IsSolved
SolveIsSolved ==
    /\ provePc = "dbs.isSolved"
    /\ IF The(witness).satisfies
       THEN /\ solved' = TRUE
            /\ solveRet' = [circuit |-> "circuit", assigment |-> "assigment",
                            err |-> "nil"]
            /\ provePc' = "dbs.returned"
       ELSE /\ solved' = solved
            /\ SolveReturnErr("failed to solve")
    /\ UNCHANGED << keyVars, witness, pf, verified, err, fileVars, populated >>
    /\ FuncFrame

DoBabyBearSolve ==
    \/ SolveReadFile
    \/ SolveUnmarshal
    \/ SolveIsSolved

\* BabyBearSetup, line 352: the call of DoBabyBearSolve
SetupStart ==
    /\ entry = "BabyBearSetup"
    /\ provePc = "setup.start"
    /\ provePc' = "dbs.readFile"
    /\ UNCHANGED << keyVars, proofVars, err, fileVars, populated, solveRet >>
    /\ FuncFrame

\* BabyBearSetup, lines 353-363: the error of DoBabyBearSolve, then the full
\* and the public witness of the solved assignment
SetupSolved ==
    /\ entry = "BabyBearSetup"
    /\ provePc = "dbs.returned"
    /\ IF solveRet.err # "nil"
       THEN ReturnErr("fail to solve")
       ELSE provePc' = "setup.compile" /\ err' = err
    /\ UNCHANGED << keyVars, proofVars, fileVars, populated, solveRet >>
    /\ FuncFrame

\* BabyBearSetup, lines 366-371: frontend.Compile; Ccs = ccs
SetupCompile ==
    /\ provePc = "setup.compile"
    /\ \E ok \in BOOLEAN :
           IF ok
           THEN /\ Ccs' = "compiled"
                /\ populated' = [populated EXCEPT !.Ccs = @ + 1]
                /\ provePc' = "setup.keys"
                /\ err' = err
           ELSE /\ Ccs' = Ccs
                /\ populated' = populated
                /\ ReturnErr("fail to compile frontend")
    /\ UNCHANGED << vkFile, Pk, Vk, proofVars, fileVars, solveRet >>
    /\ FuncFrame

\* BabyBearSetup, lines 373-376: Pk, Vk, err = groth16.Setup(Ccs); with an
\* error the two keys it returns are nil
SetupKeys ==
    /\ provePc = "setup.keys"
    /\ \E ok \in BOOLEAN :
           IF ok
           THEN /\ Pk' = "loaded"
                /\ Vk' = "matching"
                /\ populated' = [populated EXCEPT !.Pk = @ + 1, !.Vk = @ + 1]
                /\ provePc' = "setup.prove"
                /\ err' = err
           ELSE /\ Pk' = "empty"
                /\ Vk' = "empty"
                /\ populated' = populated
                /\ ReturnErr("fail to setup groth16")
    /\ UNCHANGED << vkFile, Ccs, proofVars, fileVars, solveRet >>
    /\ FuncFrame

\* a variant: the sample proof is not verified
SetupProveUnverified ==
    /\ provePc = "setup.prove"
    /\ IF CanProve
       THEN /\ pf' \in { {p} : p \in Proofs }
            /\ provePc' = "setup.writePk"
            /\ err' = err
       ELSE /\ pf' = pf
            /\ ReturnErr("fail to prove groth16")
    /\ UNCHANGED << keyVars, witness, solved, verified, fileVars, populated,
                    solveRet >>
    /\ FuncFrame

\* BabyBearSetup, lines 378-381: the sample proof
SetupProve ==
    /\ provePc = "setup.prove"
    /\ IF CanProve
       THEN /\ pf' \in { {p} : p \in Proofs }
            /\ provePc' = "setup.verify"
            /\ err' = err
       ELSE /\ pf' = pf
            /\ ReturnErr("fail to prove groth16")
    /\ UNCHANGED << keyVars, witness, solved, verified, fileVars, populated,
                    solveRet >>
    /\ FuncFrame

\* BabyBearSetup, lines 383-386: groth16.Verify of the sample proof
SetupVerify ==
    /\ provePc = "setup.verify"
    /\ IF Vk = "matching"
       THEN /\ verified' = TRUE
            /\ provePc' = "setup.writePk"
            /\ err' = err
       ELSE /\ verified' = verified
            /\ ReturnErr("fail to verify")
    /\ UNCHANGED << keyVars, witness, solved, pf, fileVars, populated,
                    solveRet >>
    /\ FuncFrame

\* BabyBearSetup, lines 388-391: utils.WriteProvingKey(PK_PATH, Pk); the key
\* at VK_PATH is now the key of another proving key
SetupWritePk ==
    /\ provePc = "setup.writePk"
    /\ \E ok \in BOOLEAN :
           IF ok
           THEN /\ pkFile' = "written"
                /\ vkFile' = "foreign"
                /\ provePc' = "setup.writeVk"
                /\ err' = err
           ELSE /\ pkFile' = pkFile
                /\ vkFile' = vkFile
                /\ ReturnErr("fail to write pk")
    /\ UNCHANGED << Pk, Vk, Ccs, proofVars, witnessJson, ccsFile, solFile,
                    populated, solveRet >>
    /\ FuncFrame

\* BabyBearSetup, lines 393-397: utils.WriteVerifyingKey(VK_PATH, Vk)
SetupWriteVk ==
    /\ provePc = "setup.writeVk"
    /\ \E ok \in BOOLEAN :
           IF ok
           THEN /\ vkFile' = "matching"
                /\ err' = "nil"
                /\ provePc' = "returned"
           ELSE /\ vkFile' = vkFile
                /\ ReturnErr("fail to write vk")
    /\ UNCHANGED << Pk, Vk, Ccs, proofVars, fileVars, populated, solveRet >>
    /\ FuncFrame

BabyBearSetup ==
    \/ SetupStart
    \/ SetupSolved
    \/ SetupCompile
    \/ SetupKeys
    \/ SetupProve
    \/ SetupVerify
    \/ SetupWritePk
    \/ SetupWriteVk

\* a variant: the destination is created before the key is read
ExportReadVkCreated ==
    /\ entry = "ExportSolidify"
    /\ provePc = "export.readVk"
    /\ \E ok \in BOOLEAN :
           IF ok
           THEN /\ Vk' = vkFile
                /\ populated' = [populated EXCEPT !.Vk = @ + 1]
                /\ provePc' = "export.create"
                /\ err' = err
           ELSE /\ Vk' = Vk
                /\ populated' = populated
                /\ ReturnErr("failed to read verifiing key")
    /\ solFile' = "empty"
    /\ UNCHANGED << vkFile, Pk, Ccs, proofVars, witnessJson, pkFile, ccsFile,
                    solveRet >>
    /\ FuncFrame

\* ExportSolidify, lines 217-220: utils.ReadVerifyingKey(VK_PATH, Vk)
ExportReadVk ==
    /\ entry = "ExportSolidify"
    /\ provePc = "export.readVk"
    /\ \E ok \in BOOLEAN :
           IF ok
           THEN /\ Vk' = vkFile
                /\ populated' = [populated EXCEPT !.Vk = @ + 1]
                /\ provePc' = "export.create"
                /\ err' = err
           ELSE /\ Vk' = Vk
                /\ populated' = populated
                /\ ReturnErr("failed to read verifiing key")
    /\ UNCHANGED << vkFile, Pk, Ccs, proofVars, fileVars, solveRet >>
    /\ FuncFrame

\* ExportSolidify, lines 222-226: os.Create(SOLIDITY_PATH); the deferred
\* f.Close() of a nil file returns an error and does nothing
ExportCreate ==
    /\ provePc = "export.create"
    /\ \E ok \in BOOLEAN :
           IF ok
           THEN /\ solFile' = "empty"
                /\ provePc' = "export.write"
                /\ err' = err
           ELSE /\ solFile' = solFile
                /\ ReturnErr("fail to solidify file")
    /\ UNCHANGED << keyVars, proofVars, witnessJson, pkFile, ccsFile,
                    populated, solveRet >>
    /\ FuncFrame

\* ExportSolidify, lines 228-232: Vk.ExportSolidity(f)
ExportWrite ==
    /\ provePc = "export.write"
    /\ \E ok \in BOOLEAN :
           IF ok
           THEN /\ solFile' = "exported"
                /\ err' = "nil"
                /\ provePc' = "returned"
           ELSE /\ solFile' = solFile
                /\ ReturnErr("fail to export solidity")
    /\ UNCHANGED << keyVars, proofVars, witnessJson, pkFile, ccsFile,
                    populated, solveRet >>
    /\ FuncFrame

ExportSolidify ==
    \/ ExportReadVk
    \/ ExportCreate
    \/ ExportWrite

\* what no step of main or BabyBearCmd touches
CmdFrame ==
    /\ UNCHANGED << mainSrc, cmd, solveRet, fileVars, svcVars, populated >>
    /\ UNCHANGED << fieldFlag, keyVars, taskVars, written, response >>
    /\ UNCHANGED << chipVars, encVars >>

\* a call from BabyBearCmd: the function starts with fresh locals
CallFrom(f, at, back) ==
    /\ entry' = f
    /\ provePc' = at
    /\ err' = "none"
    /\ witness' = { }
    /\ solved' = FALSE
    /\ pf' = { }
    /\ verified' = FALSE
    /\ cmdPc' = back
    /\ cmdErr' = cmdErr

\* return from BabyBearCmd
CmdReturn(e) ==
    /\ cmdErr' = e
    /\ cmdPc' = "returned"
    /\ UNCHANGED << entry, provePc, err, proofVars >>

\* the selectors of the two mains
BabyBearSelector == IF mainSrc = "part_000" THEN "bb" ELSE "babybear"
KoalaBearSelector == IF mainSrc = "part_000" THEN "kb" ELSE "koalabear"

\* main: switch *field (part_000 lines 75-91, constraints.go lines 535-551);
\* KoalaBearCmd is only named here
MainSwitch ==
    /\ cmdPc = "main"
    /\ IF fieldFlag = BabyBearSelector
       THEN dispatched' = "BabyBearCmd" /\ cmdPc' = "BabyBearCmd"
       ELSE IF fieldFlag = KoalaBearSelector
       THEN dispatched' = "KoalaBearCmd" /\ cmdPc' = "exit"
       ELSE dispatched' = "not supported" /\ cmdPc' = "exit"
    /\ UNCHANGED << cmdErr, entry, provePc, err, proofVars >>
    /\ CmdFrame

\* BabyBearCmd, lines 282-321: switch cmd
CmdSwitch ==
    /\ cmdPc = "BabyBearCmd"
    /\ CASE cmd = "prove" -> CallFrom("BabyBearProve", "start", "prove")
         [] cmd = "setup" -> CallFrom("BabyBearSetup", "setup.start", "setup")
         [] cmd = "solve" -> CallFrom("DoBabyBearSolve", "dbs.readFile", "solve")
         [] cmd = "setupAndProve" ->
                CallFrom("BabyBearSetup", "setup.start", "setupAndProve")
         [] cmd = "exportSolidity" ->
                CallFrom("ExportSolidify", "export.readVk", "exportSolidity")
         [] OTHER -> CmdReturn(<< "unknown command", cmd >>)
    /\ UNCHANGED dispatched
    /\ CmdFrame

\* case "prove", lines 284-287
CmdProve ==
    /\ cmdPc = "prove"
    /\ entry = "BabyBearProve"
    /\ provePc = "returned"
    /\ IF err # "nil"
       THEN CmdReturn(<< "fail to prove", err >>)
       ELSE CmdReturn(<< "nil" >>)
    /\ UNCHANGED dispatched
    /\ CmdFrame

\* case "setup", lines 289-292: after BabyBearSetup
CmdSetup ==
    /\ cmdPc = "setup"
    /\ entry = "BabyBearSetup"
    /\ provePc = "returned"
    /\ IF err # "nil"
       THEN CmdReturn(<< "fail to setup", err >>)
       ELSE CallFrom("ExportSolidify", "export.readVk", "setup.export")
    /\ UNCHANGED dispatched
    /\ CmdFrame

\* case "setup", lines 293-296: after ExportSolidify; the test is err == nil,
\* and the final return gives back err
CmdSetupExport ==
    /\ cmdPc = "setup.export"
    /\ entry = "ExportSolidify"
    /\ provePc = "returned"
    /\ IF err = "nil"
       THEN CmdReturn(<< "fail to export solidity", err >>)
       ELSE CmdReturn(<< err >>)
    /\ UNCHANGED dispatched
    /\ CmdFrame

\* case "solve", lines 298-301
CmdSolve ==
    /\ cmdPc = "solve"
    /\ entry = "DoBabyBearSolve"
    /\ provePc = "dbs.returned"
    /\ IF solveRet.err # "nil"
       THEN CmdReturn(<< "fail to solve", solveRet.err >>)
       ELSE CmdReturn(<< "nil" >>)
    /\ UNCHANGED dispatched
    /\ CmdFrame

\* case "setupAndProve", lines 303-306: after BabyBearSetup
CmdSetupAndProve ==
    /\ cmdPc = "setupAndProve"
    /\ entry = "BabyBearSetup"
    /\ provePc = "returned"
    /\ IF err # "nil"
       THEN CmdReturn(<< "fail to setup", err >>)
       ELSE CallFrom("ExportSolidify", "export.readVk", "setupAndProve.export")
    /\ UNCHANGED dispatched
    /\ CmdFrame

\* case "setupAndProve", lines 307-310: after ExportSolidify
CmdSetupAndProveExport ==
    /\ cmdPc = "setupAndProve.export"
    /\ entry = "ExportSolidify"
    /\ provePc = "returned"
    /\ IF err # "nil"
       THEN CmdReturn(<< "fail to export solidity", err >>)
       ELSE CallFrom("BabyBearProve", "start", "setupAndProve.prove")
    /\ UNCHANGED dispatched
    /\ CmdFrame

\* case "setupAndProve", lines 311-314: after BabyBearProve; the test is
\* err == nil, and the final return gives back err
CmdSetupAndProveDone ==
    /\ cmdPc = "setupAndProve.prove"
    /\ entry = "BabyBearProve"
    /\ provePc = "returned"
    /\ IF err = "nil"
       THEN CmdReturn(<< "fail to prove", err >>)
       ELSE CmdReturn(<< err >>)
    /\ UNCHANGED dispatched
    /\ CmdFrame

\* case "exportSolidity", lines 315-319
CmdExport ==
    /\ cmdPc = "exportSolidity"
    /\ entry = "ExportSolidify"
    /\ provePc = "returned"
    /\ IF err # "nil"
       THEN CmdReturn(<< "fail to export solidity", err >>)
       ELSE CmdReturn(<< "nil" >>)
    /\ UNCHANGED dispatched
    /\ CmdFrame

BabyBearCmd ==
    \/ CmdSwitch
    \/ CmdProve
    \/ CmdSetup
    \/ CmdSetupExport
    \/ CmdSolve
    \/ CmdSetupAndProve
    \/ CmdSetupAndProveExport
    \/ CmdSetupAndProveDone
    \/ CmdExport

Commands ==
    { "prove", "setup", "solve", "setupAndProve", "exportSolidity", "verify" }

Selectors == { "bb", "kb", "babybear", "koalabear", "m31" }

InitCmd ==
    /\ NewChip("bb")
    /\ EncoderIdle
    /\ mainSrc \in { "part_000", "constraints.go" }
    /\ fieldFlag \in Selectors
    /\ cmd \in Commands
    /\ cmdPc = "main"
    /\ cmdErr = <<>>
    /\ dispatched = "none"
    /\ witnessJson \in { { } } \cup { {w} : w \in Witnesses }
    /\ pkFile \in { "absent", "present" }
    /\ ccsFile = "absent"
    /\ solFile \in { "absent", "old" }
    /\ vkFile \in { "matching", "foreign" }
    /\ solveRet = NoSolveRet
    /\ populated = NothingPopulated
    /\ loadReady = FALSE
    /\ routes = { }
    /\ wg = 0
    /\ pkLoad = "none"
    /\ ccsLoad = "none"
    /\ entry = "none"
    /\ provePc = "idle"
    /\ Pk = "empty"
    /\ Vk = "empty"
    /\ Ccs = "empty"
    /\ loadLock = 0
    /\ pkTask = "none"
    /\ ccsTask = "none"
    /\ reafProveKeyErr = FALSE
    /\ compileCcsErr = FALSE
    /\ witness = { }
    /\ solved = FALSE
    /\ pf = { }
    /\ verified = FALSE
    /\ written = { }
    /\ response = { }
    /\ err = "none"

NextCmd ==
    \/ MainSwitch
    \/ BabyBearCmd
    \/ DoBabyBearSolve
    \/ BabyBearSetup
    \/ ExportSolidify
    \/ BabyBearProve
    \/ GetAggOnChainProof

SpecCmd == InitCmd /\ [][NextCmd]_vars

\* --------------------------------------------------------------------------
\* Properties of the sponge (under Spec)
\* --------------------------------------------------------------------------

\* a call of Update, of Finalize: the steps that start one
UpdateCalled   == pc = "idle" /\ nUpdate' = nUpdate + 1
FinalizeCalled == pc = "idle" /\ nFinalize' = nFinalize + 1

\* C1: on a fresh sponge, n Updates followed by one Finalize have invoked the
\* permutation floor(n/15) + 1 times when Finalize returns, and the n
\* Updates alone floor(n/15) times.
C1_PermutationCount ==
    /\ (pc = "idle" /\ nFinalize = 0) => nPermute = nUpdate \div 15
    /\ (pc = "idle" /\ nFinalize = 1 /\ nAfter = 0) =>
           nPermute = (nUpdate \div 15) + 1

\* 15 Updates, then Finalize has returned: two permutations
C1_Witness ==
    /\ pc = "idle"
    /\ nUpdate = 15
    /\ nFinalize = 1
    /\ nAfter = 0
    /\ res # <<>>
    /\ nPermute = 2

\* C2: Update(x) at position k adds x to what lane k holds, leaves the other
\* lanes as they are and moves the position to k + 1; it starts a
\* permutation exactly when the new position is 15, and the position is set
\* to 0 when that permutation has returned, with the permuted state kept.
C2_UpdateAbsorbs ==
    [][ /\ UpdateCalled =>
            /\ State'[bufferCount] = AddF(State[bufferCount], input')
            /\ \A i \in Lanes \ {bufferCount} : State'[i] = State[i]
            /\ bufferCount' = bufferCount + 1
            /\ IF bufferCount' = 15
               THEN /\ pc' = "initialLinearLayer"
                    /\ caller' = "Update"
                    /\ nPermute' = nPermute + 1
               ELSE /\ pc' = "idle"
                    /\ nPermute' = nPermute
        /\ (pc = "done" /\ caller = "Update") =>
            /\ bufferCount = 15
            /\ bufferCount' = 0
            /\ State' = State
            /\ pc' = "idle"
        /\ (pc # "idle" /\ pc # "done" /\ caller = "Update") =>
            /\ bufferCount' = 15
            /\ nPermute' = nPermute
      ]_vars

\* the 16th Update has added its input to lane 0 of the permuted state
C2_Witness ==
    /\ pc = "idle"
    /\ nUpdate = 16
    /\ nFinalize = 0
    /\ bufferCount = 1
    /\ nPermute = 1
    /\ BigLess(BigModulus(field), State[0].UpperBound)

\* C3: Finalize adds the constant one to one lane and to no other, the lane
\* at the buffer position when the position is above 0 and lane 0 when it
\* is 0; it then permutes once and returns the 16 lanes of the permuted
\* state.
C3_FinalizeMarksOneLane ==
    [][ /\ FinalizeCalled =>
            LET k == IF bufferCount > 0 THEN bufferCount ELSE 0
            IN  /\ State'[k] = AddF(State[k], One(field))
                /\ \A i \in Lanes \ {k} : State'[i] = State[i]
                /\ pc' = "initialLinearLayer"
                /\ caller' = "Finalize"
                /\ nPermute' = nPermute + 1
        /\ (pc # "idle" /\ caller = "Finalize") => nPermute' = nPermute
        /\ (pc = "done" /\ caller = "Finalize") =>
            /\ pc' = "idle"
            /\ DOMAIN res' = 0..15
            /\ \A i \in 0..15 : res'[i] = State[i]
            /\ State' = State
            /\ ran = [initial |-> 1, first |-> 4,
                      internal |-> IF field = "bb" THEN 13 ELSE 20,
                      second |-> 4]
      ]_vars

\* Finalize has returned after exactly 15 Updates, the buffer empty
C3_Witness ==
    /\ pc = "idle"
    /\ nUpdate = 15
    /\ bufferCount = 0
    /\ nFinalize = 1
    /\ DOMAIN res = 0..15
    /\ res = State

\* C4: once Finalize has returned, no later call changes the state of the
\* sponge or produces another output.
C4_SingleUse ==
    [][ (nFinalize >= 1 /\ res # <<>>) => (State' = State /\ res' = res) ]_vars

\* a sponge that took an Update, or a second Finalize, after its Finalize
C4_Witness ==
    /\ nFinalize >= 1
    /\ nAfter = 1
    /\ res # <<>>
    /\ \E i \in Lanes : State[i] # res[i]

\* --------------------------------------------------------------------------
\* Properties of the permutation (under SpecDirect)
\* --------------------------------------------------------------------------

FirstHalfPcs  == { "first.addRc", "first.sbox", "first.linearLayer" }
InternalPcs   == { "internal.addRc", "internal.sboxP", "internal.diffusion" }
SecondHalfPcs == { "second.addRc", "second.sbox", "second.linearLayer" }

Ran(i, a, b, c) == [initial |-> i, first |-> a, internal |-> b, second |-> c]

\* C5: a PermuteMut call runs one initial external linear layer, then 4
\* external rounds, then the 13 (BabyBear) or 20 (KoalaBear) internal
\* rounds, then 4 external rounds, and is done after 21 or 28 rounds: at
\* every statement, what has been completed is exactly what precedes it in
\* this order.
C5_PhaseOrder ==
    LET n == IF field = "bb" THEN 13 ELSE 20
    IN  /\ pc = "initialLinearLayer" => ran = Ran(0, 0, 0, 0)
        /\ pc \in FirstHalfPcs =>
               r \in 0..3 /\ ran = Ran(1, r, 0, 0)
        /\ pc \in InternalPcs =>
               r \in 4..(3 + n) /\ ran = Ran(1, 4, r - 4, 0)
        /\ pc \in SecondHalfPcs =>
               r \in (4 + n)..(7 + n) /\ ran = Ran(1, 4, n, r - 4 - n)
        /\ pc = "done" =>
               r = 8 + n /\ ran = Ran(1, 4, n, 4)
                         /\ ran.first + ran.internal + ran.second
                              = (IF field = "bb" THEN 21 ELSE 28)

\* a KoalaBear permutation is done, after 28 rounds
C5_Witness ==
    /\ pc = "done"
    /\ field = "kb"
    /\ r = 28
    /\ ran = Ran(1, 4, 20, 4)

\* C6: an external round, in either half, adds the 16 constants of its row
\* to the 16 lanes lane by lane, then applies the S-box to each of the 16
\* lanes, then applies the external linear layer; the statements of the
\* second half do to the state what those of the first half do.
C6_ExternalRound ==
    [][ /\ pc \in { "first.addRc", "second.addRc" } =>
            /\ \A i \in Lanes : State'[i] = AddF(State[i], rc16(field)[r][i])
            /\ pc' = (IF pc = "first.addRc" THEN "first.sbox" ELSE "second.sbox")
            /\ r' = r
        /\ pc \in { "first.sbox", "second.sbox" } =>
            /\ \A i \in Lanes : State'[i] = sboxP(field, State[i])
            /\ pc' = (IF pc = "first.sbox" THEN "first.linearLayer"
                      ELSE "second.linearLayer")
            /\ r' = r
        /\ pc \in { "first.linearLayer", "second.linearLayer" } =>
            /\ State' = externalLinearLayer(State)
            /\ r' = r + 1
            /\ pc' \in { "first.addRc", "internal.addRc", "second.addRc", "done" }
      ]_vars

\* the last round of the second half is about to apply its linear layer
C6_Witness ==
    /\ pc = "second.linearLayer"
    /\ r = rounds(field) - 1
    /\ ran.second = 3

\* C7: in an internal round the constant addition adds the first constant of
\* the round's row to lane 0, the S-box raises lane 0, and both leave lanes
\* 1..15 as they were, up to the start of the diffusion layer.
C7_InternalLaneZero ==
    [][ /\ pc = "internal.addRc" =>
            /\ State'[0] = AddF(State[0], rc16(field)[r][0])
            /\ \A i \in 1..15 : State'[i] = State[i]
            /\ pc' = "internal.sboxP"
        /\ pc = "internal.sboxP" =>
            /\ State'[0] = sboxP(field, State[0])
            /\ \A i \in 1..15 : State'[i] = State[i]
            /\ pc' = "internal.diffusion"
      ]_vars

\* an internal round at its diffusion layer: lane 0 is reduced, lane 1 still
\* carries the bound it entered the round with
C7_Witness ==
    /\ pc = "internal.diffusion"
    /\ ran.internal = 2
    /\ State[0].UpperBound = BigFromInt(Modulus(field) - 1)
    /\ BigLess(BigModulus(field), State[1].UpperBound)

\* the residue of a gadget variable modulo the field's prime
Residue(f, a) == BigMod(a.Value, BigModulus(f))

Degree(f) == IF f = "bb" THEN 7 ELSE 3

\* out is congruent to the Degree(f)-th power of in, the power taken in the
\* integers
SboxCongruent(f, in, out) ==
    Residue(f, out) = BigMod(BigPow(Residue(f, in), Degree(f)), BigModulus(f))

\* C8: whatever representative of x it is given, sboxP returns a value
\* congruent to x^7 modulo 2013265921 in the BabyBear chip and to x^3 modulo
\* 2130706433 in the KoalaBear chip.
C8_SboxPower ==
    [][ /\ pc \in { "first.sbox", "second.sbox" } =>
            \A i \in Lanes : SboxCongruent(field, State[i], State'[i])
        /\ pc = "internal.sboxP" =>
            SboxCongruent(field, State[0], State'[0])
      ]_vars

\* the S-box has run in round 0 and is about to run in round 1 on a lane
\* whose value is not below the modulus
C8_Witness ==
    /\ pc = "first.sbox"
    /\ r = 1
    /\ \E i \in Lanes : BigLess(BigModulus(field), State[i].Value)

\* the statements of sboxP that square: i2 := Mul(inputValue, inputValue)
\* and, in the BabyBear chip, i4 := Mul(i2, i2)
Squarings(f) == IF f = "bb" THEN { 3, 4 } ELSE { 3 }

\* the inputs the statement about to run passes to sboxP
SboxPending ==
    IF pc \in { "first.sbox", "second.sbox" } THEN { State[i] : i \in Lanes }
    ELSE IF pc = "internal.sboxP" THEN { State[0] }
    ELSE { }

\* C9 as stated: every squaring in sboxP is preceded by a ReduceSlow whose
\* result, of bound p - 1, is the operand squared.
C9_ReducedBeforeEachSquaring ==
    \A in \in SboxPending :
        LET c == sboxPCalls(field, in)
        IN  \A k \in Squarings(field) :
                /\ c[k - 1].call = "ReduceSlow"
                /\ c[k - 1].out.UpperBound = BigFromInt(Modulus(field) - 1)
                /\ c[k].x = c[k - 1].out.Value
                /\ c[k].y = c[k - 1].out.Value

\* C9: sboxP calls ReduceSlow twice, on its input before the first
\* multiplication and on the final power.  The first squaring takes the
\* reduced input, of bound p - 1 and below p; the multiplications after it
\* take the products as they are (in the BabyBear chip the second squaring
\* takes the un-reduced i2); every product is the exact integer product,
\* below the bound declared for the final power, which is below the native
\* modulus.
C9_ReducedOnceBeforeFirstMul ==
    \A in \in SboxPending :
        LET c == sboxPCalls(field, in)
            n == Len(c)
        IN  /\ { k \in 1..n : c[k].call = "ReduceSlow" } = { 2, n }
            /\ c[2].out.UpperBound = BigFromInt(Modulus(field) - 1)
            /\ BigLess(c[2].out.Value, BigModulus(field))
            /\ c[3].x = c[2].out.Value /\ c[3].y = c[2].out.Value
            /\ \A k \in 3..(n - 1) :
                /\ c[k].call = "Mul"
                /\ c[k].out = BigMul(c[k].x, c[k].y)
                /\ BigLess(c[k].out, c[n].x.UpperBound)
            /\ \A k \in 4..(n - 1) : c[k].x = c[k - 1].out
            /\ c[n].x.Value = c[n - 1].out
            /\ c[n].x.UpperBound =
                   BigPow(BigModulus(field), Degree(field))
            /\ BigLess(c[n].x.UpperBound, NativeModulus)
            /\ field = "bb" => c[4].y = c[3].out

\* the BabyBear S-box is about to run on lane 0 in an internal round, and
\* the operand of its second squaring is not below the modulus
C9_Witness ==
    /\ pc = "internal.sboxP"
    /\ field = "bb"
    /\ ran.internal = 1
    /\ BigLess(BigModulus(field), sboxPCalls(field, State[0])[4].x)

\* the sum of the values of lanes 0 .. n-1, in the integers
RECURSIVE SumOfValues(_, _)
SumOfValues(state, n) ==
    IF n = 0 THEN <<>>
    ELSE BigAdd(SumOfValues(state, n - 1), state[n - 1].Value)

\* C10: the internal diffusion layer sets every lane i to (the value of lane
\* i on entry) * diag[i] + sum in the native field, sum being the sum of
\* the 16 lanes on entry, whatever lanes are updated before lane i.
C10_DiffusionUsesEntrySum ==
    [][ pc = "internal.diffusion" =>
            \A i \in Lanes :
                State'[i].Value =
                    BigMod(BigAdd(BigMul(State[i].Value,
                                         matInternalDiagM1(field)[i].Value),
                                  SumOfValues(State, 16)),
                           NativeModulus)
      ]_vars

\* a diffusion layer has run: every lane carries a bound above the modulus
C10_Witness ==
    /\ pc = "internal.addRc"
    /\ ran.internal = 1
    /\ \A i \in Lanes : BigLess(BigModulus(field), State[i].UpperBound)
    /\ \E i \in Lanes : State[i].Value # <<>>

\* the statements that call externalLinearLayer
LinearLayerPcs ==
    { "initialLinearLayer", "first.linearLayer", "second.linearLayer" }

\* the blocks the statement about to run passes to the 4x4 mix
BlocksPending == IF pc \in LinearLayerPcs THEN { 0, 4, 8, 12 } ELSE { }

\* the native-field value of c0*s0 + c1*s1 + c2*s2 + c3*s3 for the block
\* s0 .. s3 of state at offset o, computed in the integers
BlockCombination(state, o, c0, c1, c2, c3) ==
    BigMod(BigAdd(BigAdd(BigMulSmall(state[o].Value, c0),
                         BigMulSmall(state[o + 1].Value, c1)),
                  BigAdd(BigMulSmall(state[o + 2].Value, c2),
                         BigMulSmall(state[o + 3].Value, c3))),
           NativeModulus)

\* C11 as stated: the 4x4 mix sets lane 0 of the block to
\* t0123 + t01 + 2*s1, which is 2*s0 + 4*s1 + s2 + s3.
C11_MixLaneZeroDoubled ==
    \A o \in BlocksPending :
        mdsLightPermutation4x4(State, o)[o].Value
            = BlockCombination(State, o, 2, 4, 1, 1)

\* C11: with t01 = s0+s1, t23 = s2+s3 and t0123 = t01+t23, the 4x4 mix sets
\* lane 0 of the block to t0123 + t01 + s1, which is 2*s0 + 3*s1 + s2 + s3.
C11_MixLaneZero ==
    \A o \in BlocksPending :
        mdsLightPermutation4x4(State, o)[o].Value
            = BlockCombination(State, o, 2, 3, 1, 1)

\* a linear layer is about to mix a block whose s1 is not zero
C11_Witness ==
    /\ pc = "first.linearLayer"
    /\ r = 0
    /\ State[1].Value # <<>>
    /\ BlockCombination(State, 0, 2, 3, 1, 1) # BlockCombination(State, 0, 2, 4, 1, 1)

\* the value the 4x4 mix gives lane i, from the four lanes of i's block alone
\* (rows 2 3 1 1 / 1 2 3 1 / 1 1 2 3 / 3 1 1 2)
MixedValue(state, i) ==
    LET o == i - (i % 4)
    IN  CASE i % 4 = 0 -> BlockCombination(state, o, 2, 3, 1, 1)
          [] i % 4 = 1 -> BlockCombination(state, o, 1, 2, 3, 1)
          [] i % 4 = 2 -> BlockCombination(state, o, 1, 1, 2, 3)
          [] i % 4 = 3 -> BlockCombination(state, o, 3, 1, 1, 2)

\* the sum of the four mixed lanes of column c, in the integers
ColumnSum(state, c) ==
    BigAdd(BigAdd(MixedValue(state, c), MixedValue(state, c + 4)),
           BigAdd(MixedValue(state, c + 8), MixedValue(state, c + 12)))

\* C12: the external linear layer mixes each of the four blocks on its own,
\* and every output lane is its mixed value plus the sum of the four mixed
\* values of its column (lanes c, c+4, c+8, c+12).
C12_ExternalLinearLayer ==
    [][ (pc \in LinearLayerPcs) =>
            \A i \in Lanes :
                State'[i].Value =
                    BigMod(BigAdd(MixedValue(State, i), ColumnSum(State, i % 4)),
                           NativeModulus)
      ]_vars

\* the linear layer of round 0 has run on lanes that were not all equal
C12_Witness ==
    /\ pc = "first.addRc"
    /\ r = 1
    /\ ran.first = 1
    /\ State[0].Value # State[4].Value
    /\ State[0].Value # State[1].Value

\* --------------------------------------------------------------------------
\* Properties of the field gadget, on the lanes a permutation holds
\* --------------------------------------------------------------------------

\* pairs of lanes of the current state: every lane with itself and with
\* the next lane
LanePairs == { << i, j >> \in Lanes \X Lanes : j = i \/ j = (i + 1) % 16 }

Commas(s) == { k \in 1..Len(s) : s[k] = "," }

NumFields(s) == Cardinality(Commas(s)) + 1

CommaAt(s, j) ==
    IF j = 0 THEN 0
    ELSE IF j = NumFields(s) THEN Len(s) + 1
    ELSE CHOOSE k \in Commas(s) :
             Cardinality({ m \in Commas(s) : m < k }) = j - 1

FieldOf(s, j) == SubSeq(s, CommaAt(s, j - 1) + 1, CommaAt(s, j) - 1)

\* the values the encoder is given, in the documented order: the exported
\* coordinates a, b, c row by row, then the public witness
ValuesOf(prf, w) ==
    LET e == ExportProof(prf)
    IN  << e.a[1], e.a[2], e.b[1][1], e.b[1][2], e.b[2][1], e.b[2][2],
           e.c[1], e.c[2] >> \o w

\* the hex digits of x, most significant first, none for zero
RECURSIVE ToHex(_)
ToHex(x) ==
    IF x = <<>> THEN <<>>
    ELSE Append(ToHex(BigDivSmall(x, 16)), HexDigits[BigModSmall(x, 16) + 1])

RECURSIVE StripZeros(_)
StripZeros(d) ==
    IF d = <<>> THEN d
    ELSE IF Head(d) = "0" THEN StripZeros(Tail(d)) ELSE d

\* f is 0x followed by the hex digits of x, with any number of leading zeros
IsHexOf(f, x) ==
    /\ Len(f) >= 2
    /\ SubSeq(f, 1, 2) = << "0", "x" >>
    /\ StripZeros(SubSeq(f, 3, Len(f))) = ToHex(x)

Encoded == encPc = "done"

\* C15: the string GetAggOnChainProof returns holds, field by field, A.x,
\* A.y, B[0].x, B[0].y, B[1].x, B[1].y, C.x, C.y and then the elements of the
\* public witness in index order: field k is the hex string of the k-th
\* value, and no further field carries anything.
C15_EncodingOrder ==
    Encoded =>
        LET vs == ValuesOf(proof, swVector)
        IN  /\ NumFields(result) >= Len(vs)
            /\ \A k \in 1..Len(vs) : IsHexOf(FieldOf(result, k), vs[k])
            /\ \A k \in (Len(vs) + 1)..NumFields(result) :
                   FieldOf(result, k) = <<>>

C15_Witness ==
    /\ Encoded
    /\ Len(swVector) = 2
    /\ swVector[1] # swVector[2]
    /\ proof.Bs.X.A0 # proof.Bs.X.A1
    /\ NumFields(result) = 10

\* f is 0x followed by exactly 64 hex digits: a value of 32 bytes
IsHex32(f) ==
    /\ Len(f) = 66
    /\ SubSeq(f, 1, 2) = << "0", "x" >>
    /\ \A k \in 3..66 : \E d \in 1..16 : f[k] = HexDigits[d]

\* C16: every value in the string GetAggOnChainProof returns, the eight
\* coordinates and every element of the public witness, is 0x followed by
\* exactly 64 hex digits, whatever the value.
C16_FixedWidth ==
    Encoded =>
        \A k \in 1..(8 + Len(swVector)) : IsHex32(FieldOf(result, k))

\* the proof whose point Ar is the generator (1, 2) has been encoded
C16_Witness ==
    /\ Encoded
    /\ proof.Ar.X = <<1>>
    /\ FieldOf(result, 1) = << "0", "x", "0", "1" >>
    /\ Len(swVector) = 1
    /\ IsHex32(FieldOf(result, 9))

\* the integer a string of hex digits denotes, read big-endian
DigitValue(c) == CHOOSE d \in 0..15 : HexDigits[d + 1] = c

RECURSIVE Pow16(_)
Pow16(k) ==
    IF k = 0 THEN <<1>>
    ELSE IF k % 2 = 1 THEN BigMulSmall(Pow16(k - 1), 16)
    ELSE LET h == Pow16(k \div 2) IN BigMul(h, h)

\* the digits d[lo] .. d[hi]: the upper half times 16^(length of the lower
\* half), plus the lower half
RECURSIVE HexValueOf(_, _, _)
HexValueOf(d, lo, hi) ==
    IF lo > hi THEN <<>>
    ELSE IF lo = hi THEN BigFromInt(DigitValue(d[lo]))
    ELSE LET mid == (lo + hi) \div 2
         IN  BigAdd(BigMul(HexValueOf(d, lo, mid), Pow16(hi - mid)),
                    HexValueOf(d, mid + 1, hi))

HexValue(d) == HexValueOf(d, 1, Len(d))

IsHexField(f) == Len(f) >= 2 /\ SubSeq(f, 1, 2) = << "0", "x" >>

\* s split on commas, and each 0x-hex field decoded
Decode(s) ==
    LET fields == [j \in 1..NumFields(s) |-> FieldOf(s, j)]
        hex    == SelectSeq(fields, IsHexField)
    IN  [j \in 1..Len(hex) |-> HexValue(SubSeq(hex[j], 3, Len(hex[j])))]

\* C17: the string GetAggOnChainProof returns, split on commas and each
\* 0x-hex field decoded as a big-endian integer, gives back the eight
\* coordinates and the elements of the public witness, in the documented
\* order, none of them truncated.
C17_RoundTrip ==
    Encoded => Decode(result) = ValuesOf(proof, swVector)

\* a proof with a coordinate of 31 bytes and the largest field element as a
\* public input have been encoded
C17_Witness ==
    /\ Encoded
    /\ Len(swVector) = 2
    /\ swVector[1] = BigSub(NativeModulus, <<1>>)
    /\ Len(FieldOf(result, 4)) = 64
    /\ Len(FieldOf(result, 9)) = 66

\* --------------------------------------------------------------------------
\* Properties of the prove entry points (under SpecProve)
\* --------------------------------------------------------------------------

\* the encoder has been called on the proof
EncoderCalled == encPc # "idle" \/ result # <<>>

\* C18: sdk.Prove calls the encoder and writes the file at PROOF_PATH only
\* after groth16.Verify has accepted the proof under the loaded verifying
\* key; when the verifying key does not belong to the proving key, Prove
\* returns the verification error, the encoder is never called and nothing
\* is written.
C18_WriteAfterVerify ==
    (entry = "BabyBearProve") =>
        /\ (EncoderCalled \/ written # { }) =>
               (pf # { } /\ verified /\ Vk = "matching")
        /\ (written # { }) => (written = { result } /\ pf = { proof })
        /\ (pf # { } /\ Vk # "matching" /\ provePc = "returned") =>
               (err = "failed to verify proof" /\ ~EncoderCalled
                /\ written = { })

C18_Witness ==
    /\ entry = "BabyBearProve"
    /\ provePc = "returned"
    /\ err = "nil"
    /\ verified
    /\ written = { result }
    /\ NumFields(result) = 8 + Len(The(witness).public)

\* the handler has answered with proof data
ProofReturned == \E a \in response : a.status = 200

\* C19: the handler of POST /prove returns proof data only for a proof that
\* groth16.Verify has accepted under the verifying key.
C19_ReturnAfterVerify ==
    (entry = "service" /\ ProofReturned) => verified

\* the service has answered a request with the encoding of a proof that was
\* never verified; Vk is still as declared
C19_Witness ==
    /\ entry = "service"
    /\ ProofReturned
    /\ response = { [status |-> 200, body |-> JsonString(result)] }
    /\ pf = { proof }
    /\ ~verified
    /\ Vk = "empty"

\* C20: in both entry points groth16.Prove produces a proof only after the
\* witness has passed the constraint-satisfaction check (test.IsSolved); for
\* a witness that fails it no proof is generated, written or returned.
C20_ProveAfterSolve ==
    /\ (pf # { }) => solved
    /\ \A w \in witness :
           ~w.satisfies => (pf = { } /\ written = { } /\ ~ProofReturned)

\* the handler has produced a proof for a witness no Solve has looked at
C20_Witness ==
    /\ entry = "service"
    /\ provePc = "svc.GetAggOnChainProof"
    /\ pf # { }
    /\ ~solved

\* --------------------------------------------------------------------------
\* Properties of the service's start (under SpecProve)
\* --------------------------------------------------------------------------

\* the server has started: requests are accepted and handled
ServingPcs ==
    { "serving", "GetWitnessFromHex", "svc.groth16.Prove",
      "svc.GetAggOnChainProof", "svc.Encode", "responded" }

\* C22: in the service, loadReady is true, the routes are registered and the
\* server runs only when both goroutines have read their file with success,
\* so a handler finds Pk and Ccs loaded; a failed load ends the process, which
\* then is never ready, registers no route and answers no request.
C22_ReadyAfterLoads ==
    (entry = "service") =>
        /\ (loadReady \/ routes # { } \/ provePc \in ServingPcs) =>
               (pkLoad = "done" /\ ccsLoad = "done"
                /\ Pk = "loaded" /\ Ccs = "compiled")
        /\ (pkLoad \notin { "none", "running", "done" }
            \/ ccsLoad \notin { "none", "running", "done" }) =>
               (provePc = "aborted" /\ ~loadReady /\ routes = { }
                /\ response = { })

\* the handler is about to call groth16.Prove with Pk and Ccs
C22_Witness ==
    /\ entry = "service"
    /\ provePc = "svc.groth16.Prove"
    /\ loadReady
    /\ routes = { "/ready", "/prove" }
    /\ populated.Pk = 1
    /\ populated.Ccs = 1

\* C28: a field selector that is neither kb nor bb stops the service before
\* any work: no load of the proving key or the constraint system is started
\* and no request is accepted.
C28_FailFast ==
    (entry = "service" /\ fieldFlag \notin { "kb", "bb" }) =>
        (pkLoad = "none" /\ ccsLoad = "none" /\ provePc \notin ServingPcs)

\* started with -field m31, the service has loaded both files and has
\* answered a request, with the error of GetWitnessFromHex
C28_Witness ==
    /\ entry = "service"
    /\ fieldFlag = "m31"
    /\ Pk = "loaded"
    /\ Ccs = "compiled"
    /\ loadReady
    /\ response = { [status |-> 500, body |-> "invalid field"] }

\* the bodies of the handler's error answers
ErrorTexts ==
    { "bind error", "witness error", "invalid field", "Internal Server Error" }

\* C29: POST /prove answers a successful request with status 200 and the
\* body {"proof_data": <the encoder output>}, and a failed one (binding,
\* witness, proving, encoding) with status 500 and an error text that holds
\* no proof data.
C29_ResponseForm ==
    \A a \in response :
        /\ a.status \in { 200, 500 }
        /\ (a.status = 200) => (a.body = JsonProveResp(result) /\ pf # { })
        /\ (a.status = 500) => (a.body \in ErrorTexts)

\* a request has been answered with status 200: the body is the encoder
\* output as a JSON string
C29_Witness ==
    /\ entry = "service"
    /\ provePc = "responded"
    /\ \E a \in response :
           a.status = 200 /\ a.body = << "\"" >> \o result \o << "\"", "\n" >>
    /\ Len(result) > 0

\* --------------------------------------------------------------------------
\* Properties of the command line (under SpecCmd)
\* --------------------------------------------------------------------------

\* the positions inside DoBabyBearSolve
SolvePcs == { "dbs.readFile", "dbs.unmarshal", "dbs.isSolved", "dbs.returned" }

\* the three errors of DoBabyBearSolve
SolveErrors ==
    { "fail to read witness file", "failed to parse witness json",
      "failed to solve" }

\* C21: DoBabyBearSolve generates no proof; each failure (witness file
\* unreadable, witness JSON malformed, constraints not satisfied) returns its
\* own error with a nil circuit and a nil assignment; a nil error comes with a
\* non-nil circuit and assignment, and only when reading, parsing and solving
\* all succeeded.
C21_SolveOutcome ==
    /\ (provePc \in SolvePcs) => (pf = { } /\ ~verified)
    /\ (provePc = "dbs.returned") =>
           IF solveRet.err = "nil"
           THEN /\ solveRet.circuit # "nil"
                /\ solveRet.assigment # "nil"
                /\ witnessJson # { }
                /\ witness = witnessJson
                /\ The(witness).satisfies
                /\ solved
           ELSE /\ solveRet.circuit = "nil"
                /\ solveRet.assigment = "nil"
                /\ solveRet.err \in SolveErrors
                /\ (solveRet.err = "failed to parse witness json")
                       => (witnessJson = { })
                /\ (solveRet.err = "failed to solve")
                       => (witness # { } /\ ~The(witness).satisfies)

\* the solve command has returned from DoBabyBearSolve with a witness that
\* does not satisfy the circuit
C21_Witness ==
    /\ cmd = "solve"
    /\ entry = "DoBabyBearSolve"
    /\ provePc = "dbs.returned"
    /\ witness # { }
    /\ solveRet = [circuit |-> "nil", assigment |-> "nil",
                   err |-> "failed to solve"]

\* C27: in every command-line entry point the selector bb runs the BabyBear
\* command, kb runs the KoalaBear command, and any other selector runs
\* neither and is reported as unsupported.
C27_FieldSwitch ==
    (cmdPc # "main") =>
        dispatched = (IF fieldFlag = "bb" THEN "BabyBearCmd"
                      ELSE IF fieldFlag = "kb" THEN "KoalaBearCmd"
                      ELSE "not supported")

\* the main of constraints.go has reported the selector bb as unsupported
C27_Witness ==
    /\ mainSrc = "constraints.go"
    /\ fieldFlag = "bb"
    /\ cmdPc = "exit"
    /\ dispatched = "not supported"

\* the errors of BabyBearSetup for a step before the two writes
SetupStepErrors ==
    { "fail to solve", "fail to compile frontend", "fail to setup groth16",
      "fail to prove groth16", "fail to verify" }

C25_ArtifactsPersisted ==
    (entry = "BabyBearSetup" /\ provePc = "returned" /\ err = "nil") =>
        /\ pkFile = "written"
        /\ vkFile = "matching"
        /\ ccsFile # "absent"

\* BabyBearSetup has returned nil and has written the two keys; the
\* constraint system is compiled in memory and no file of it exists
C25_Witness ==
    /\ entry = "BabyBearSetup"
    /\ provePc = "returned"
    /\ err = "nil"
    /\ Ccs = "compiled"
    /\ pkFile = "written"
    /\ ccsFile = "absent"

\* C30: ExportSolidify returns an error when the verifying key cannot be
\* read, when the destination cannot be created and when the export fails,
\* and nil only when all three succeed; when the verifying key cannot be read
\* the destination file is neither created nor truncated.
C30_ExportOutcome ==
    (entry = "ExportSolidify" /\ provePc = "returned") =>
        /\ err \in { "nil", "failed to read verifiing key",
                     "fail to solidify file", "fail to export solidity" }
        /\ (err = "nil") <=> (solFile = "exported")
        /\ (err = "nil") => (Vk = vkFile /\ populated.Vk >= 1)
        /\ (err = "failed to read verifiing key")
               => (solFile \in { "absent", "old" })
        /\ (err = "fail to solidify file") => (solFile \in { "absent", "old" })
        /\ (err = "fail to export solidity") => (solFile = "empty")

\* ExportSolidify has failed to read the verifying key and the file that
\* was at the destination is still there
C30_Witness ==
    /\ entry = "ExportSolidify"
    /\ provePc = "returned"
    /\ err = "failed to read verifiing key"
    /\ solFile = "old"

\* C23: in every process run each of the shared singletons Pk, Vk and Ccs is
\* populated once, by a load or by setup, and is never written again, for
\* every command including setup and setupAndProve.
C23_PopulatedOnce ==
    /\ populated.Pk <= 1
    /\ populated.Vk <= 1
    /\ populated.Ccs <= 1

\* the command setup has returned: Vk was written by groth16.Setup and read
\* again from the file by ExportSolidify
C23_Witness ==
    /\ cmd = "setup"
    /\ cmdPc = "returned"
    /\ entry = "ExportSolidify"
    /\ populated.Vk = 2
    /\ populated.Pk = 1
    /\ populated.Ccs = 1

\* the errors of a step that failed on its input or on a file
StepFailures ==
    { "fail to solve", "fail to compile frontend", "fail to setup groth16",
      "fail to write pk", "fail to write vk", "failed to read verifiing key",
      "fail to solidify file", "fail to export solidity",
      "fail to read reproving key", "failed to read verifing key",
      "fail to read witness file", "failed to parse witness json",
      "failed to solve", "fail to compile compiler", "failed to write res" }

\* C26: for a witness that satisfies the circuit and with every file
\* operation succeeding, the command setupAndProve runs setup, solidity
\* export and prove in that order, writes the proof and returns no error; an
\* error it returns is the error of a step that failed.
C26_RoundTrip ==
    (cmd = "setupAndProve") =>
        /\ (cmdPc = "setupAndProve.export") => (pkFile = "written")
        /\ (cmdPc = "setupAndProve.prove")
               => (pkFile = "written" /\ solFile = "exported")
        /\ (written # { }) => (cmdPc \in { "setupAndProve.prove", "returned" })
        /\ (cmdPc = "returned") =>
               IF entry = "BabyBearProve" /\ err = "nil"
               THEN cmdErr = << "nil" >> /\ written # { }
               ELSE /\ cmdErr # << "nil" >>
                    /\ cmdErr[Len(cmdErr)] \in StepFailures

\* setupAndProve has run the three steps, BabyBearProve has written the
\* proof and returned nil, and the command has returned an error
C26_Witness ==
    /\ cmd = "setupAndProve"
    /\ cmdPc = "returned"
    /\ entry = "BabyBearProve"
    /\ err = "nil"
    /\ verified
    /\ written # { }
    /\ solFile = "exported"
    /\ cmdErr = << "fail to prove", "nil" >>

\* every step of the command has run and returned nil
AllStepsSucceeded ==
    CASE cmd = "prove" -> entry = "BabyBearProve" /\ err = "nil"
      [] cmd = "setup" -> entry = "ExportSolidify" /\ err = "nil"
      [] cmd = "solve" -> entry = "DoBabyBearSolve" /\ solveRet.err = "nil"
      [] cmd = "setupAndProve" -> entry = "BabyBearProve" /\ err = "nil"
      [] cmd = "exportSolidity" -> entry = "ExportSolidify" /\ err = "nil"
      [] OTHER -> FALSE

\* C37: for every command BabyBearCmd runs a step only if the earlier steps
\* of the command succeeded, and returns nil exactly when every step
\* succeeded; the command setup returns nil when BabyBearSetup and
\* ExportSolidify both succeed, and an unknown command returns an error
\* without running a step.
C37_NilIffAllSteps ==
    /\ (cmd \in { "setup", "setupAndProve" } /\ entry = "ExportSolidify")
           => (pkFile = "written" /\ vkFile = "matching")
    /\ (cmd = "setupAndProve" /\ entry = "BabyBearProve")
           => (pkFile = "written" /\ solFile = "exported")
    /\ (cmd \notin Commands \ { "verify" }) => (entry = "none")
    /\ (cmdPc = "returned")
           => ((cmdErr = << "nil" >>) <=> AllStepsSucceeded)

\* the command setup has returned an error although BabyBearSetup and
\* ExportSolidify both returned nil
C37_Witness ==
    /\ cmd = "setup"
    /\ cmdPc = "returned"
    /\ entry = "ExportSolidify"
    /\ err = "nil"
    /\ pkFile = "written"
    /\ solFile = "exported"
    /\ cmdErr = << "fail to export solidity", "nil" >>

\* --------------------------------------------------------------------------
\* The field count of the encoder (under SpecEncode)
\* --------------------------------------------------------------------------

\* C38: for a public witness of any length n >= 0 the encoder output has
\* exactly 8 + n comma-separated fields, none of them empty: no leading, no
\* trailing and no doubled comma.
C38_FieldCount ==
    (encPc = "done") =>
        /\ NumFields(result) = 8 + Len(swVector)
        /\ \A j \in 1..NumFields(result) : FieldOf(result, j) # <<>>

\* the encoder has returned for an empty public witness and its output ends
\* with the comma written after the last coordinate
C38_Witness ==
    /\ encPc = "done"
    /\ Len(swVector) = 0
    /\ Len(result) > 0
    /\ result[Len(result)] = ","
    /\ NumFields(result) = 9

\* --------------------------------------------------------------------------
\* The background tasks of BabyBearProve (under SpecProve)
\* --------------------------------------------------------------------------

\* both goroutines have run to their end
TasksFinished == pkTask = "done" /\ ccsTask = "done" /\ loadLock = 0

\* C31: in BabyBearProve the main path reads the tasks' error variables, and
\* sdk.Prove reads Pk and Ccs, only after the proving-key read and the
\* compilation have both finished; sdk.Prove is called only when both
\* reported no error.
C31_ProveAfterTasks ==
    [][ (entry = "BabyBearProve" /\ provePc' # provePc) =>
            /\ (provePc = "wait") => TasksFinished
            /\ (provePc = "groth16.Prove") =>
                   /\ TasksFinished
                   /\ ~reafProveKeyErr
                   /\ ~compileCcsErr
                   /\ Pk = "loaded"
                   /\ Ccs = "compiled" ]_vars

\* sdk.Prove has produced a proof after both tasks finished without error
C31_Witness ==
    /\ entry = "BabyBearProve"
    /\ provePc = "groth16.Verify"
    /\ pf # { }
    /\ TasksFinished
    /\ ~reafProveKeyErr
    /\ ~compileCcsErr

\* C32: whenever BabyBearProve returns, with nil or with any error, every
\* background task it started has finished and the counter of loadLock is
\* back to zero, so that a later call cannot block in loadLock.Wait.
C32_TasksJoined ==
    (entry = "BabyBearProve" /\ provePc = "returned") =>
        /\ pkTask # "running"
        /\ ccsTask # "running"
        /\ loadLock = 0

\* BabyBearProve has returned "failed to solve": the read of the proving
\* key has finished, the compilation was never started, and the counter of
\* loadLock stays at one
C32_Witness ==
    /\ entry = "BabyBearProve"
    /\ provePc = "returned"
    /\ err = "failed to solve"
    /\ pkTask = "done"
    /\ ccsTask = "none"
    /\ loadLock = 1

\* --------------------------------------------------------------------------
\* The capacity lane of the sponge (under Spec)
\* --------------------------------------------------------------------------

\* C34: between the calls of Update and Finalize the buffer position is in
\* 0..14, and neither Update nor Finalize adds an input or the
\* domain-separation constant into lane 15: a call changes one of the lanes
\* 0..14, and lane 15 changes only inside PermuteMut.
C34_CapacityLane ==
    [][ /\ (pc = "idle") => (bufferCount \in 0..(RATE - 1))
        /\ (pc' = "idle") => (bufferCount' \in 0..(RATE - 1))
        /\ (pc = "idle") => (State'[RATE] = State[RATE]) ]_vars

\* an Update at position 14 has run the permutation, which changed lane 15,
\* and later calls have brought the position to 14 again
C34_Witness ==
    /\ pc = "idle"
    /\ bufferCount = RATE - 1
    /\ nPermute >= 1
    /\ nUpdate >= RATE
    /\ State[RATE] # Zero(field)

\* --------------------------------------------------------------------------
\* The rows of the round-constant table (under SpecDirect)
\* --------------------------------------------------------------------------

\* the number of rounds the running PermuteMut has completed
Round == ran.first + ran.internal + ran.second

AddRcPcs == { "first.addRc", "internal.addRc", "second.addRc" }

\* C35: within one PermuteMut call round r, counting external and internal
\* rounds together from 0, reads row r of the round-constant table and no
\* other: the rows are read in increasing order, each once, rows 0..3 by the
\* first external half, the next 13 (BabyBear) or 20 (KoalaBear) by the
\* internal rounds, which take the first element only, and the last four by
\* the second external half; the highest row read is 20 or 27.
C35_RowPerRound ==
    [][ LET n == IF field = "bb" THEN 13 ELSE 20 IN
            /\ (pc = "first.addRc") =>
                /\ Round \in 0..3
                /\ State' = addRc(State, rc16(field)[Round])
            /\ (pc = "internal.addRc") =>
                /\ Round \in 4..(3 + n)
                /\ State'[0] = AddF(State[0], rc16(field)[Round][0])
                /\ \A i \in 1..15 : State'[i] = State[i]
            /\ (pc = "second.addRc") =>
                /\ Round \in (4 + n)..(7 + n)
                /\ State' = addRc(State, rc16(field)[Round])
            /\ (pc \in AddRcPcs) => (pc' \notin AddRcPcs /\ Round' = Round)
            /\ (pc' \in AddRcPcs) =>
                   (Round' = Round + 1 \/ pc = "initialLinearLayer")
            /\ (pc' = "done") =>
                   Round' = (IF field = "bb" THEN 20 ELSE 27) + 1 ]_vars

\* the last round of a BabyBear permutation has added row 20
C35_Witness ==
    /\ field = "bb"
    /\ pc = "second.sbox"
    /\ r = 20
    /\ Round = 20

\* --------------------------------------------------------------------------
\* The 4x4 mix as a matrix (under SpecDirect)
\* --------------------------------------------------------------------------

\* C36: mdsLightPermutation4x4 is a linear function of the four values the
\* block held on entry: every output lane is computed from the original
\* s0..s3, and the result is the product with the circulant matrix of rows
\* (2,3,1,1), (1,2,3,1), (1,1,2,3), (3,1,1,2) modulo p; the lanes outside the
\* block are left alone.
C36_MixIsCirculant ==
    \A o \in BlocksPending :
        LET out == mdsLightPermutation4x4(State, o)
        IN  /\ \A i \in o..(o + 3) :
                   Residue(field, out[i])
                       = BigMod(MixedValue(State, i), BigModulus(field))
            /\ \A i \in Lanes \ (o..(o + 3)) : out[i] = State[i]

\* a linear layer is about to mix the block of lanes 4..7, whose four
\* values differ, and lane 7 depends on the s0 the block entered with
C36_Witness ==
    /\ pc = "second.linearLayer"
    /\ Cardinality({ Residue(field, State[i]) : i \in 4..7 }) = 4
    /\ Residue(field, State[4]) # <<>>
    /\ BlockCombination(State, 4, 3, 1, 1, 2)
           # BlockCombination(State, 4, 0, 1, 1, 2)

\* --------------------------------------------------------------------------
\* The tracked bounds inside PermuteMut (under SpecDirect)
\* --------------------------------------------------------------------------

\* the running PermuteMut was called with lanes of bound at most p - 1
EnteredReduced == BigLess(entryBound, BigModulus(field))

\* C33: with the gadget's bound rules (AddF adds the bounds and never
\* reduces, MulF multiplies them, ReduceSlow resets the bound to p - 1) and
\* 16 lanes that enter with a bound of at most p - 1, the tracked bound of
\* every lane stays below the modulus of the native field at every step of
\* PermuteMut, for both chips, the lanes 1..15 of the internal rounds
\* included.
C33_BoundsBelowNative ==
    EnteredReduced =>
        \A i \in Lanes : BigLess(State[i].UpperBound, NativeModulus)

\* canonical lanes entered a BabyBear permutation; an internal round is
\* about to run its diffusion layer, lane 0 is freshly reduced, and the
\* bound of lane 1, which no S-box has reduced since the internal rounds
\* began, has reached the native modulus
C33_Witness ==
    /\ field = "bb"
    /\ EnteredReduced
    /\ pc = "internal.diffusion"
    /\ State[0].UpperBound = BigFromInt(BabyBearModulus - 1)
    /\ ~BigLess(State[1].UpperBound, NativeModulus)

====
